---- MODULE Spec2Model ----
(***************************************************************************)
(* Verification workflow of mcp-verifier (src/mcp_verifier).               *)
(*                                                                         *)
(* Representation choices                                                  *)
(*  - A text is a sequence of one-character strings, so that lower() and   *)
(*    the 'in' substring test are computed, not assumed.                   *)
(*  - description_match is kept in hundredths (0.6 is 60, 0.95 is 95).     *)
(*  - The state object is the record of every attribute the stages read    *)
(*    or write.  models.py declares neither uploaded_zip nor               *)
(*    build_artifacts nor extract_dir; the variable schema says whether    *)
(*    the state object carries undeclared attributes ("open") or refuses   *)
(*    them with an AttributeError on first read ("declared").              *)
(*  - Path.resolve() yields "/..." on a posix host and a drive path on a   *)
(*    windows host; the variable platform says which host runs the code.   *)
(*  - run is "blocked" when a stage waits for a command that never exits.  *)
(***************************************************************************)
EXTENDS Integers, Sequences, FiniteSets, TLC

VARIABLES
    state,        \* the VerificationState threaded through the stages
    before,       \* the state object as the last executed stage received it
    twin,         \* a second state object (used with _make_decision as a function)
    twinBefore,   \* twin as _make_decision received it
    scheduled,    \* stages of the current step that have not run yet
    writes,       \* stage -> state it returned, for the current step
    run,          \* position of verify(): running, END, raised, ...
    trace,        \* stages executed so far, in order
    fs,           \* paths that exist on disk
    process,      \* ProcessManager.process
    startup,      \* locals of _verify_startup
    platform,     \* path flavour of the host
    schema,       \* see above
    archive,      \* the uploaded archive
    error,        \* the exception that left the run, "none" while there is none
    highReports,  \* executions of analyze_security that returned a high finding
    result,       \* what verify() returned: <<>> until it returns, then <<r>>
    faults,       \* what the environment refused so far (see Fault)
    calls,        \* calls made on a process manager or on a registry store
    registry      \* the registry file, the stores opened on it, the stored servers

vars == <<state, before, twin, twinBefore, scheduled, writes, run, trace,
          fs, process, startup, platform, schema, archive, error,
          highReports, result, faults, calls, registry>>

----------------------------------------------------------------------------
(* Texts *)

T_high     == <<"h","i","g","h">>
T_medium   == <<"m","e","d","i","u","m">>
T_low      == <<"l","o","w">>
T_critical == <<"c","r","i","t","i","c","a","l">>
T_Critical == <<"C","r","i","t","i","c","a","l">>
T_CRITICAL == <<"C","R","I","T","I","C","A","L">>
T_uncritical == <<"u","n","c","r","i","t","i","c","a","l">>
T_minor    == <<"m","i","n","o","r">>
T_critic   == <<"c","r","i","t","i","c">>
T_HIGH     == <<"H","I","G","H">>
T_urgent   == <<"u","r","g","e","n","t">>

\* str.lower() on one character
LowerChar(c) ==
    CASE c = "A" -> "a" [] c = "C" -> "c" [] c = "G" -> "g" [] c = "H" -> "h"
      [] c = "I" -> "i" [] c = "L" -> "l" [] c = "R" -> "r" [] c = "T" -> "t"
      [] OTHER -> c

\* str.lower()
lower(t) == [i \in 1..Len(t) |-> LowerChar(t[i])]

\* needle in t
Contains(needle, t) ==
    \E i \in 1..(Len(t) - Len(needle) + 1) :
        SubSeq(t, i, i + Len(needle) - 1) = needle

----------------------------------------------------------------------------
(* Records of core/models.py *)

SecurityIssue(sev) ==
    [severity |-> sev, description |-> "d", location |-> "l",
     recommendation |-> "r"]

GuidelineViolation(imp) ==
    [rule |-> "r", description |-> "d", impact |-> imp]

\* SecurityIssue.severity pattern ^(high|medium|low)$
SeverityPattern(sev) == sev \in {T_high, T_medium, T_low}

\* VerificationState.status pattern
StatusValues == {"pending", "approved", "rejected"}

Repeat(x, n) == [i \in 1..n |-> x]

----------------------------------------------------------------------------
(* VerificationGraph._make_decision *)

SecurityIssueLimit == 10
MatchThreshold == 60

\* the 'in' test without .lower()
has_critical_violations_exact_case(s) ==
    \E i \in 1..Len(s.guideline_violations) :
        Contains(T_critical, s.guideline_violations[i].impact)

has_critical_violations(s) ==
    \E i \in 1..Len(s.guideline_violations) :
        Contains(T_critical, lower(s.guideline_violations[i].impact))

\* approves only a state that is already approved
_make_decision_pending_rejected(s) ==
    LET has_security_issues == Len(s.security_issues) > SecurityIssueLimit
        poor_description_match == s.description_match < MatchThreshold
    IN  IF \/ has_security_issues
           \/ has_critical_violations(s)
           \/ poor_description_match
           \/ s.status # "approved"
        THEN [s EXCEPT !.status = "rejected"]
        ELSE [s EXCEPT !.status = "approved"]

\* decides on the findings alone
_make_decision_ignores_status(s) ==
    LET has_security_issues == Len(s.security_issues) > SecurityIssueLimit
        poor_description_match == s.description_match < MatchThreshold
    IN  IF \/ has_security_issues
           \/ has_critical_violations(s)
           \/ poor_description_match
        THEN [s EXCEPT !.status = "rejected"]
        ELSE [s EXCEPT !.status = "approved"]

\* records its stage name as the analyzers do
_make_decision_sets_stage(s) ==
    LET has_security_issues == Len(s.security_issues) > SecurityIssueLimit
        poor_description_match == s.description_match < MatchThreshold
    IN  IF \/ has_security_issues
           \/ has_critical_violations(s)
           \/ poor_description_match
           \/ s.status = "rejected"
        THEN [s EXCEPT !.status = "rejected", !.current_stage = "make_decision"]
        ELSE [s EXCEPT !.status = "approved", !.current_stage = "make_decision"]

_make_decision(s) ==
    LET has_security_issues == Len(s.security_issues) > SecurityIssueLimit
        poor_description_match == s.description_match < MatchThreshold
    IN  IF \/ has_security_issues
           \/ has_critical_violations(s)
           \/ poor_description_match
           \/ s.status = "rejected"
        THEN [s EXCEPT !.status = "rejected"]
        ELSE [s EXCEPT !.status = "approved"]

----------------------------------------------------------------------------
(* VerificationGraph._needs_security_fixes *)

_needs_security_fixes(s) ==
    /\ Len(s.security_issues) > 0
    /\ \E i \in 1..Len(s.security_issues) :
           Contains(T_high, lower(s.security_issues[i].severity))

----------------------------------------------------------------------------
(* Replies of the reasoning service.  A reply is a sequence of lines; a    *)
(* line is [key, val]: key is the "- Key:" prefix the line starts with     *)
(* ("text" when it starts with none of them) and val is                    *)
(* line.split(':')[1].strip().                                             *)

Line(k, v) == [key |-> k, val |-> v]

NoText == <<>>

\* SecurityAnalyzer._parse_security_issues.  current_issue is the pair
\* (keys present, severity value).
\* a record with its four fields is committed whatever its severity
SecurityCommit_any_severity(cur, issues) ==
    IF cur.keys # {} /\ Cardinality(cur.keys) = 4
    THEN Append(issues, SecurityIssue(cur.severity))
    ELSE issues

SecurityCommit(cur, issues) ==
    IF cur.keys # {} /\ Cardinality(cur.keys) = 4
    THEN IF SeverityPattern(cur.severity)
         THEN Append(issues, SecurityIssue(cur.severity))
         ELSE issues      \* SecurityIssue(**current_issue) raised: logged
    ELSE issues

RECURSIVE ParseSecurityFrom(_, _, _, _)
ParseSecurityFrom(response, i, cur, issues) ==
    IF i > Len(response)
    THEN SecurityCommit(cur, issues)
    ELSE LET line == response[i] IN
         IF line.key = "Severity"
         THEN ParseSecurityFrom(response, i + 1,
                  [keys |-> {"severity"}, severity |-> lower(line.val)],
                  SecurityCommit(cur, issues))
         ELSE IF line.key = "Description"
         THEN ParseSecurityFrom(response, i + 1,
                  [cur EXCEPT !.keys = @ \cup {"description"}], issues)
         ELSE IF line.key = "Location"
         THEN ParseSecurityFrom(response, i + 1,
                  [cur EXCEPT !.keys = @ \cup {"location"}], issues)
         ELSE IF line.key = "Recommendation"
         THEN ParseSecurityFrom(response, i + 1,
                  [cur EXCEPT !.keys = @ \cup {"recommendation"}], issues)
         ELSE ParseSecurityFrom(response, i + 1, cur, issues)

_parse_security_issues(response) ==
    ParseSecurityFrom(response, 1, [keys |-> {}, severity |-> NoText], <<>>)

\* GuidelinesAnalyzer._parse_violations
ViolationCommit(cur, violations) ==
    IF cur.keys # {} /\ Cardinality(cur.keys) = 3
    THEN Append(violations, GuidelineViolation(cur.impact))
    ELSE violations

RECURSIVE ParseViolationsFrom(_, _, _, _)
ParseViolationsFrom(response, i, cur, violations) ==
    IF i > Len(response)
    THEN ViolationCommit(cur, violations)
    ELSE LET line == response[i] IN
         IF line.key = "Rule"
         THEN ParseViolationsFrom(response, i + 1,
                  [keys |-> {"rule"}, impact |-> NoText],
                  ViolationCommit(cur, violations))
         ELSE IF line.key = "Description"
         THEN ParseViolationsFrom(response, i + 1,
                  [cur EXCEPT !.keys = @ \cup {"description"}], violations)
         ELSE IF line.key = "Impact"
         THEN ParseViolationsFrom(response, i + 1,
                  [cur EXCEPT !.keys = @ \cup {"impact"}, !.impact = line.val],
                  violations)
         ELSE ParseViolationsFrom(response, i + 1, cur, violations)

_parse_violations(response) ==
    ParseViolationsFrom(response, 1, [keys |-> {}, impact |-> NoText], <<>>)

\* DescriptionAnalyzer._extract_match_score.  A reply is [kind, number]:
\* "percentage" when some line holds 'percentage' and '%' with a number in
\* front of the '%', "garbled" when float() raises on that line, "absent"
\* when no line qualifies.  number / 100.0, in hundredths, is number.
DefaultMatchScore == 50

_extract_match_score(response) ==
    IF response.kind = "percentage" THEN response.number
    ELSE DefaultMatchScore

----------------------------------------------------------------------------
(* Paths are sequences of components; fs is the set of paths on disk.      *)

Scratch == <<"temp", "uuid">>        \* Path(temp_dir) / str(uuid.uuid4())
StrDefault == <<"str">>              \* server_path: Field(default=str)
NoPath == <<>>                       \* None, or an attribute never assigned

Range(f) == {f[i] : i \in DOMAIN f}
Join(a, b) == a \o b
IsPrefix(a, p) == Len(a) <= Len(p) /\ SubSeq(p, 1, Len(a)) = a
Basename(p) == p[Len(p)]
Dirname(p) == SubSeq(p, 1, Len(p) - 1)
RelativeTo(p, base) == SubSeq(p, Len(base) + 1, Len(p))

\* shutil.rmtree
rmtree(F, p) == {q \in F : ~IsPrefix(p, q)}

\* Path.suffix of the file names in use
Suffix(name) ==
    CASE name \in {"server.py", "evil.py"} -> ".py"
      [] name = "index.js" -> ".js"
      [] name = "app.ts" -> ".ts"
      [] name = "pyproject.toml" -> ".toml"
      [] name \in {"package.json", "package-lock.json"} -> ".json"
      [] name = "pnpm-lock.yaml" -> ".yaml"
      [] name = "yarn.lock" -> ".lock"
      [] name = "README.md" -> ".md"
      [] name \in {"requirements.txt", "notes.txt"} -> ".txt"
      [] OTHER -> ""

\* file_path.suffix[1:]
FileType(name) ==
    CASE Suffix(name) = ".py" -> "py"
      [] Suffix(name) = ".js" -> "js"
      [] Suffix(name) = ".ts" -> "ts"
      [] Suffix(name) = ".toml" -> "toml"
      [] Suffix(name) = ".json" -> "json"
      [] Suffix(name) = ".yaml" -> "yaml"
      [] Suffix(name) = ".md" -> "md"
      [] Suffix(name) = ".txt" -> "txt"
      [] OTHER -> ""

VALID_EXTENSIONS ==
    {".py", ".js", ".ts", ".tsx", ".json", ".yaml", ".yml", ".toml", ".md"}

ServerFile(rel) == [path |-> rel, file_type |-> FileType(Basename(rel))]

Orderings(S) ==
    {f \in [1..Cardinality(S) -> S] : \A x \in S : \E i \in DOMAIN f : f[i] = x}

----------------------------------------------------------------------------
(* UploadHandler *)

\* Path(path).resolve(): absolute, ".." components folded away
RECURSIVE Fold(_, _)
Fold(done, rest) ==
    IF rest = <<>> THEN done
    ELSE IF Head(rest) = ".."
         THEN Fold(IF done = <<>> THEN done ELSE SubSeq(done, 1, Len(done) - 1),
                   Tail(rest))
         ELSE Fold(Append(done, Head(rest)), Tail(rest))

\* a member name that starts at the root is <<"/", ...>>
Resolve(path, plat) ==
    LET anchor == IF plat = "posix" THEN <<"/">> ELSE <<"C:">>
    IN  IF path # <<>> /\ Head(path) = "/"
        THEN anchor \o Fold(<<>>, Tail(path))
        ELSE anchor \o Fold(<<"srv", "cwd">>, path)

_has_dangerous_paths(paths, plat) ==
    \E path \in paths :
        LET norm_path == Resolve(path, plat)
        IN  \/ \E i \in 1..Len(norm_path) : norm_path[i] = ".."
            \/ norm_path[1] = "/"

\* ZipFile.extractall: member names lose the leading "/" and ".." components
Sanitize(m) == SelectSeq(m, LAMBDA c : c # ".." /\ c # "/")

extractall(members) == {Join(Scratch, Sanitize(m)) : m \in members}

----------------------------------------------------------------------------
(* FileProcessor *)

\* the relative paths extract_files keeps
Catalogued(F, server_path) ==
    {RelativeTo(p, server_path) :
        p \in {q \in F : /\ IsPrefix(server_path, q)
                         /\ q # server_path
                         /\ Suffix(Basename(q)) \in VALID_EXTENSIONS}}

\* python and node sources together are python whatever the manifests
determine_server_type_prefers_python(files) ==
    LET python_files == {i \in DOMAIN files : files[i].file_type = "py"}
        node_files == {i \in DOMAIN files :
                          files[i].file_type \in {"js", "ts", "tsx"}}
    IN  IF python_files # {} THEN "python"
        ELSE IF node_files # {} THEN "node"
        ELSE "ValueError"

determine_server_type(files) ==
    LET python_files == {i \in DOMAIN files : files[i].file_type = "py"}
        node_files == {i \in DOMAIN files :
                          files[i].file_type \in {"js", "ts", "tsx"}}
        \* 'name' in f, on the components of the path f
        has_requirements ==
            \E i \in DOMAIN files : "requirements.txt" \in Range(files[i].path)
        has_poetry ==
            \E i \in DOMAIN files : "pyproject.toml" \in Range(files[i].path)
        has_package_json ==
            \E i \in DOMAIN files : "package.json" \in Range(files[i].path)
    IN  IF python_files # {} /\ node_files = {} THEN "python"
        ELSE IF node_files # {} /\ python_files = {} THEN "node"
        ELSE IF (has_requirements \/ has_poetry) /\ ~has_package_json
        THEN "python"
        ELSE IF has_package_json /\ ~(has_requirements \/ has_poetry)
        THEN "node"
        ELSE "ValueError"

----------------------------------------------------------------------------
(* BaseMCPProcessManager.  process is <<>> for None and <<h>> for a handle *)
(* h.  A handle's returncode is <<>> for None (not exited) and <<rc>> once *)
(* the process exited with rc; terminate says what h.terminate() does.     *)
(* subprocess.run returns a CompletedProcess, which has a returncode and   *)
(* no terminate(); self.process is annotated asyncio.subprocess.Process,   *)
(* whose terminate() raises ProcessLookupError once the process is gone.   *)

Handle(ty, rc, term) == [type |-> ty, returncode |-> rc, terminate |-> term]

CompletedProcess(rc) == Handle("CompletedProcess", <<rc>>, "raises")

MAX_ATTEMPTS == 10

is_healthy(p) == p # <<>> /\ p[1].returncode = <<0>>

RECURSIVE WaitFrom(_, _)
WaitFrom(p, attempt) ==
    IF attempt > MAX_ATTEMPTS THEN FALSE
    ELSE IF is_healthy(p) THEN TRUE
    ELSE WaitFrom(p, attempt + 1)

_wait_for_healthy(p) == WaitFrom(p, 1)

\* stop_server with the handle cleared only after kill()
stop_server_clears_after_kill(p) ==
    IF p = <<>>
    THEN [process |-> <<>>, raised |-> "none", did |-> <<>>]
    ELSE IF p[1].terminate = "raises"
    THEN [process |-> p, raised |-> "none", did |-> <<"terminate", "log">>]
    ELSE IF p[1].terminate = "exits"
    THEN [process |-> p, raised |-> "none", did |-> <<"terminate", "wait">>]
    ELSE [process |-> <<>>, raised |-> "none",
          did |-> <<"terminate", "wait", "kill", "wait">>]

\* stop_server: did lists what was done with the handle; the finally
\* clause clears self.process on the early return, after the logged
\* exception and after kill() alike
stop_server(p) ==
    IF p = <<>>
    THEN [process |-> <<>>, raised |-> "none", did |-> <<>>]
    ELSE IF p[1].terminate = "raises"
    THEN [process |-> <<>>, raised |-> "none", did |-> <<"terminate", "log">>]
    ELSE IF p[1].terminate = "exits"
    THEN [process |-> <<>>, raised |-> "none", did |-> <<"terminate", "wait">>]
    ELSE [process |-> <<>>, raised |-> "none",
          did |-> <<"terminate", "wait", "kill", "wait">>]

\* get_process_manager
get_process_manager(server_type) ==
    IF server_type = "python" THEN "PythonProcessManager"
    ELSE IF server_type = "node" THEN "NodeProcessManager"
    ELSE "ValueError"

----------------------------------------------------------------------------
(* The stages of VerificationGraph as functions of the state object and of *)
(* what the environment answers.  Each yields the state it returns, or     *)
(* raised # "none" when it raises.                                         *)

Outcome(s, exc) == [state |-> s, raised |-> exc]

\* UploadConfig.max_size_mb; archive sizes are in whole megabytes
max_size_mb == 50

\* the size is looked at after the extraction directory was made
_process_upload_makes_directory_first(s, F, arch, plat, sch) ==
    LET s1 == [s EXCEPT !.current_stage = "process_upload"] IN
    IF sch = "declared"
    THEN [out |-> Outcome(s1, "AttributeError"), disk |-> F]
    ELSE IF ~arch.exists
    THEN [out |-> Outcome(s1, "FileNotFoundError"), disk |-> F]
    ELSE IF arch.size_mb > max_size_mb
    THEN [out |-> Outcome(s1, "ValueError"), disk |-> F \cup {Scratch}]
    ELSE IF ~arch.zip_ok
    THEN [out |-> Outcome(s1, "ValueError"), disk |-> F \cup {Scratch}]
    ELSE IF _has_dangerous_paths(arch.members, plat)
    THEN [out |-> Outcome(s1, "ValueError"),
          disk |-> rmtree(F \cup {Scratch}, Scratch)]
    ELSE [out |-> Outcome([s1 EXCEPT !.server_path = Scratch,
                                    !.current_stage = "extract_files"],
                          "none"),
          disk |-> F \cup {Scratch} \cup extractall(arch.members)]

\* _process_upload and UploadHandler.process_upload; disk is the new fs
_process_upload(s, F, arch, plat, sch) ==
    LET s1 == [s EXCEPT !.current_stage = "process_upload"] IN
    IF sch = "declared"
    THEN [out |-> Outcome(s1, "AttributeError"), disk |-> F]
    ELSE IF ~arch.exists
    THEN [out |-> Outcome(s1, "FileNotFoundError"), disk |-> F]
    ELSE IF arch.size_mb > max_size_mb
    THEN [out |-> Outcome(s1, "ValueError"), disk |-> F]
    ELSE IF ~arch.zip_ok          \* except BadZipFile: no rmtree
    THEN [out |-> Outcome(s1, "ValueError"), disk |-> F \cup {Scratch}]
    ELSE IF _has_dangerous_paths(arch.members, plat)
    THEN [out |-> Outcome(s1, "ValueError"),
          disk |-> rmtree(F \cup {Scratch}, Scratch)]
    ELSE [out |-> Outcome([s1 EXCEPT !.server_path = Scratch,
                                    !.current_stage = "extract_files"],
                          "none"),
          disk |-> F \cup {Scratch} \cup extractall(arch.members)]

\* _extract_files and FileProcessor.extract_files; order is the order in
\* which rglob yielded the files that could be read
\* an empty catalog is stored like any other
_extract_files_accepts_empty(s, F, order) ==
    LET s1 == [s EXCEPT !.current_stage = "extract_files"] IN
    IF s.server_path \notin F
    THEN Outcome(s1, "FileNotFoundError")
    ELSE Outcome([s1 EXCEPT !.files =
                      [i \in DOMAIN order |-> ServerFile(order[i])]],
                 "none")

_extract_files(s, F, order) ==
    LET s1 == [s EXCEPT !.current_stage = "extract_files"] IN
    IF s.server_path \notin F
    THEN Outcome(s1, "FileNotFoundError")
    ELSE IF order = <<>>
    THEN Outcome(s1, "ValueError")
    ELSE Outcome([s1 EXCEPT !.files =
                      [i \in DOMAIN order |-> ServerFile(order[i])]],
                 "none")

\* SecurityAnalyzer.analyze; reply is <<>> when llm.ainvoke raised
LLMError == [failed |-> TRUE, content |-> <<>>]
Reply(c) == [failed |-> FALSE, content |-> c]

\* the findings of a reply are appended to those already in the state
_analyze_security_accumulates(s, reply) ==
    LET s1 == [s EXCEPT !.current_stage = "security_check"] IN
    IF reply.failed
    THEN Outcome(s1, "LLMError")
    ELSE Outcome([s1 EXCEPT !.security_issues =
                      @ \o _parse_security_issues(reply.content)], "none")

_analyze_security(s, reply) ==
    LET s1 == [s EXCEPT !.current_stage = "security_check"] IN
    IF reply.failed
    THEN Outcome(s1, "LLMError")
    ELSE Outcome([s1 EXCEPT !.security_issues =
                      _parse_security_issues(reply.content)], "none")

\* GuidelinesAnalyzer.analyze
_analyze_guidelines(s, reply) ==
    LET s1 == [s EXCEPT !.current_stage = "guideline_check"] IN
    IF reply.failed
    THEN Outcome(s1, "LLMError")
    ELSE Outcome([s1 EXCEPT !.guideline_violations =
                      _parse_violations(reply.content)], "none")

\* a refusal of the reasoning service answered with a rejected state
_analyze_description_rejects_on_failure(s, reply) ==
    LET s1 == [s EXCEPT !.current_stage = "description_check"] IN
    IF reply.failed
    THEN Outcome([s1 EXCEPT !.status = "rejected"], "none")
    ELSE Outcome([s1 EXCEPT !.description_match =
                      _extract_match_score(reply.content)], "none")

\* DescriptionAnalyzer.analyze
_analyze_description(s, reply) ==
    LET s1 == [s EXCEPT !.current_stage = "description_check"] IN
    IF reply.failed
    THEN Outcome(s1, "LLMError")
    ELSE Outcome([s1 EXCEPT !.description_match =
                      _extract_match_score(reply.content)], "none")

----------------------------------------------------------------------------
(* _verify_startup.  build is what PackageBuilder found ("none" for a      *)
(* None package path), launch is what became of the launch command.        *)

Locals(ty, pp, ok, healthy, exc) ==
    [server_type |-> ty, package_path |-> pp, startup_success |-> ok,
     is_healthy |-> healthy, raised |-> exc]

NoLocals == Locals("unset", NoPath, "unset", "unset", "none")

Launch(k, rc) == [kind |-> k, returncode |-> rc]

\* a call made by _verify_startup on PackageBuilder or on the process
\* manager: the dialect and the command it ran, what became of the command
StartupCall(op, manager, dialect, command, outcome, returned, raised) ==
    [op |-> op, manager |-> manager, dialect |-> dialect,
     command |-> command, outcome |-> outcome, returned |-> returned,
     raised |-> raised]

Started(ok, p, exc, dialect, command) ==
    [ok |-> ok, process |-> p, raised |-> exc, dialect |-> dialect,
     command |-> command]

\* PythonProcessManager.start_server(self, package_path, package_name):
\* subprocess.run returns once the command has exited, and its
\* CompletedProcess becomes self.process
PythonProcessManager_start_server(args, launch) ==
    IF Len(args) # 2
    THEN Started(FALSE, <<>>, "TypeError", "none", <<>>)
    ELSE IF launch.kind = "pipx_install_failed"
    THEN Started(FALSE, <<>>, "none", "pipx", <<>>)
    ELSE IF launch.kind = "raised"
    THEN Started(FALSE, <<>>, "none", "pipx", <<"pipx", "run">>)
    ELSE IF launch.kind = "timeout"      \* wait_for raised TimeoutError
    THEN Started(FALSE,
                 stop_server(<<CompletedProcess(launch.returncode)>>).process,
                 "none", "pipx", <<"pipx", "run">>)
    ELSE Started(_wait_for_healthy(<<CompletedProcess(launch.returncode)>>),
                 <<CompletedProcess(launch.returncode)>>,
                 "none", "pipx", <<"pipx", "run">>)

\* NodeProcessManager.start_server(self, package_info): package_info is the
\* pair (package_path, pkg_manager)
NodeProcessManager_start_server(args, launch) ==
    IF Len(args) # 1
    THEN Started(FALSE, <<>>, "TypeError", "none", <<>>)
    ELSE LET pkg_manager == args[1][2]
             cmd == IF pkg_manager = "pnpm" THEN <<"pnpm", "dlx">>
                    ELSE IF pkg_manager = "yarn" THEN <<"yarn", "dlx">>
                    ELSE <<"npx", "--yes">>
         IN  IF launch.kind = "raised"
             THEN Started(FALSE, <<>>, "none", pkg_manager, cmd)
             ELSE IF launch.kind = "timeout"
             THEN Started(FALSE,
                     stop_server(<<CompletedProcess(launch.returncode)>>).process,
                     "none", pkg_manager, cmd)
             ELSE Started(
                     _wait_for_healthy(<<CompletedProcess(launch.returncode)>>),
                     <<CompletedProcess(launch.returncode)>>,
                     "none", pkg_manager, cmd)

\* PackageBuilder.build_python_package / build_node_package
PackagePath(server_path, server_type, build) ==
    IF build \in {"none", "raised"} THEN NoPath
    ELSE IF server_type = "python" THEN Join(server_path, <<"dist", build>>)
    ELSE Join(server_path, <<build>>)

\* PackageBuilder.detect_node_package_manager
detect_node_package_manager(F, directory) ==
    IF Join(directory, <<"pnpm-lock.yaml">>) \in F THEN "pnpm"
    ELSE IF Join(directory, <<"yarn.lock">>) \in F THEN "yarn"
    ELSE IF Join(directory, <<"package-lock.json">>) \in F THEN "npm"
    ELSE "npm"

\* PackageBuilder.build_node_package: the pair (tarball or None, dialect);
\* an exception of the pack command is answered with (None, "npm")
build_node_package(F, server_path, build) ==
    IF build = "raised"
    THEN [path |-> NoPath, pkg_manager |-> "npm"]
    ELSE [path |-> PackagePath(server_path, "node", build),
          pkg_manager |-> detect_node_package_manager(F, server_path)]

Rejected(s) == [s EXCEPT !.status = "rejected"]

\* a failed start leaves the status as it was
_start_and_check_keeps_status(s2, server_type, package_path, started) ==
    IF ~started.ok
    THEN [state |-> s2,
          locals |-> Locals(server_type, package_path, "false", "unset",
                            "none")]
    ELSE IF ~is_healthy(started.process)
    THEN [state |-> Rejected(s2),
          locals |-> Locals(server_type, package_path, "true", "false",
                            "none")]
    ELSE [state |-> s2,
          locals |-> Locals(server_type, package_path, "true", "true",
                            "none")]

\* _verify_startup from the return of start_server on
_start_and_check(s2, server_type, package_path, started) ==
    IF ~started.ok
    THEN [state |-> Rejected(s2),
          locals |-> Locals(server_type, package_path, "false", "unset",
                            "none")]
    ELSE IF ~is_healthy(started.process)
    THEN [state |-> Rejected(s2),
          locals |-> Locals(server_type, package_path, "true", "false",
                            "none")]
    ELSE [state |-> s2,
          locals |-> Locals(server_type, package_path, "true", "true",
                            "none")]

_verify_startup(s, F, build, launch) ==
    LET s0 == [s EXCEPT !.current_stage = "verify_startup"]
        server_type == determine_server_type(s.files)
        package_name == Dirname(s.files[1].path)
        s1 == [s0 EXCEPT !.server_path = Join(s.server_path, package_name)]
        \* package_path, _ = await PackageBuilder.build_node_package(...)
        node_package == build_node_package(F, s1.server_path, build)
        package_path == IF server_type = "python"
                        THEN PackagePath(s1.server_path, server_type, build)
                        ELSE node_package.path
        s2 == IF package_path # NoPath
              THEN [s1 EXCEPT !.build_artifacts = Append(@, package_path)]
              ELSE s1
        built == IF package_path # NoPath THEN F \cup {package_path} ELSE F
        build_call ==
            IF server_type = "python"
            THEN StartupCall("build_python_package", "PackageBuilder",
                             "python", <<"python", "-m", "build">>,
                             Launch(build, 0),
                             IF package_path = NoPath THEN "None" ELSE "path",
                             "none")
            ELSE StartupCall("build_node_package", "PackageBuilder",
                             node_package.pkg_manager,
                             <<detect_node_package_manager(F, s1.server_path),
                               "pack">>,
                             Launch(build, 0),
                             IF package_path = NoPath THEN "None" ELSE "path",
                             "none")
        \* process_manager.start_server(package_path, package_name)
        args == <<package_path, package_name>>
        started == IF server_type = "python"
                   THEN PythonProcessManager_start_server(args, launch)
                   ELSE NodeProcessManager_start_server(args, launch)
        start_call(returned) ==
            StartupCall("start_server",
                        IF server_type = "python" THEN "PythonProcessManager"
                        ELSE "NodeProcessManager",
                        started.dialect, started.command, launch, returned,
                        started.raised)
    IN  IF server_type = "ValueError"
        THEN [state |-> Rejected(s0), disk |-> F, process |-> <<>>,
              blocked |-> FALSE, calls |-> <<>>,
              locals |-> Locals("unset", NoPath, "unset", "unset",
                                "ValueError")]
        ELSE IF package_path = NoPath
        THEN [state |-> Rejected(s2), disk |-> built, process |-> <<>>,
              blocked |-> FALSE, calls |-> <<build_call>>,
              locals |-> Locals(server_type, NoPath, "unset", "unset",
                                "ValueError")]
        ELSE IF started.raised # "none"
        \* NodeProcessManager.start_server(self, package_info) is called
        \* with two arguments
        THEN [state |-> Rejected(s2), disk |-> built, process |-> <<>>,
              blocked |-> FALSE,
              calls |-> <<build_call, start_call("none")>>,
              locals |-> Locals(server_type, package_path, "unset", "unset",
                                started.raised)]
        ELSE IF launch.kind = "blocks"
        THEN [state |-> s2, disk |-> built, process |-> <<>>,
              blocked |-> TRUE,
              calls |-> <<build_call, start_call("pending")>>,
              locals |-> Locals(server_type, package_path, "unset", "unset",
                                "none")]
        ELSE LET r == _start_and_check(s2, server_type, package_path, started)
             IN  [state |-> r.state, disk |-> built,
                  process |-> started.process, blocked |-> FALSE,
                  calls |-> <<build_call,
                              start_call(IF started.ok THEN "true"
                                         ELSE "false")>>,
                  locals |-> r.locals]

\* a removal that fails turns the status into rejected
_cleanup_rejects_on_failure(s, F, failing) ==
    LET F1 == IF s.extract_dir # NoPath /\ s.extract_dir \notin failing
              THEN rmtree(F, s.extract_dir)
              ELSE F
        logged == failing \cap
                  ((Range(s.build_artifacts) \cap F1) \cup {s.extract_dir})
    IN  [state |-> IF logged = {} THEN s ELSE [s EXCEPT !.status = "rejected"],
         disk |-> F1 \ {a \in Range(s.build_artifacts) : a \notin failing},
         logged |-> logged]

\* _cleanup and UploadHandler.cleanup; failing holds the paths whose removal
\* raises (logged).  Every build artifact is a file.
_cleanup(s, F, failing) ==
    LET F1 == IF s.extract_dir # NoPath /\ s.extract_dir \notin failing
              THEN rmtree(F, s.extract_dir)
              ELSE F
    IN  [state |-> s,
         disk |-> F1 \ {a \in Range(s.build_artifacts) : a \notin failing},
         logged |-> failing \cap
                    ((Range(s.build_artifacts) \cap F1) \cup {s.extract_dir})]

----------------------------------------------------------------------------
(* VerificationGraph._build_graph: the edges, and the walk that            *)
(* graph.ainvoke makes over them.  Every edge that leaves a stage fires:   *)
(* the stages it reaches form the next step, each runs on the state as the *)
(* step began, and a step in which two stages return a state cannot be     *)
(* applied (one value per state key and step).                             *)

Stages ==
    {"process_upload", "extract_files", "analyze_security",
     "analyze_guidelines", "analyze_description", "verify_startup",
     "make_decision", "cleanup"}

\* verify_startup wired to cleanup, make_decision left out
Edges_without_decision ==
    {<<"START", "process_upload">>,
     <<"process_upload", "extract_files">>,
     <<"extract_files", "analyze_security">>,
     <<"analyze_security", "analyze_guidelines">>,
     <<"analyze_guidelines", "analyze_description">>,
     <<"analyze_description", "verify_startup">>,
     <<"verify_startup", "cleanup">>,
     <<"cleanup", "END">>}

Edges ==
    {<<"START", "process_upload">>,
     <<"process_upload", "extract_files">>,
     <<"extract_files", "analyze_security">>,
     <<"analyze_security", "analyze_guidelines">>,
     <<"analyze_guidelines", "analyze_description">>,
     <<"analyze_description", "verify_startup">>,
     <<"verify_startup", "make_decision">>,
     <<"make_decision", "cleanup">>,
     <<"cleanup", "END">>}

\* add_conditional_edges("analyze_security", _needs_security_fixes, ...)
ConditionalEdges(n, s) ==
    IF n = "analyze_security"
    THEN {IF _needs_security_fixes(s)
          THEN "analyze_security"
          ELSE "analyze_guidelines"}
    ELSE {}

Successors(n, s) ==
    {e[2] : e \in {d \in Edges : d[1] = n}} \cup ConditionalEdges(n, s)

----------------------------------------------------------------------------
(* What the environment may answer *)

M_server_py == <<"pkg", "server.py">>
M_pyproject == <<"pkg", "pyproject.toml">>
M_index_js  == <<"pkg", "index.js">>
M_package_json == <<"pkg", "package.json">>
M_pnpm_lock == <<"pkg", "pnpm-lock.yaml">>
M_yarn_lock == <<"pkg", "yarn.lock">>
M_package_lock == <<"pkg", "package-lock.json">>

Archive(e, sz, z, m) == [exists |-> e, size_mb |-> sz, zip_ok |-> z, members |-> m]

Archives ==
    {Archive(TRUE, 1, TRUE, {M_server_py, M_pyproject}),
     Archive(TRUE, 1, TRUE, {M_index_js, M_package_json}),
     Archive(TRUE, 1, TRUE, {M_index_js, M_package_json, M_pnpm_lock}),
     Archive(TRUE, 1, TRUE, {M_index_js, M_package_json, M_yarn_lock}),
     Archive(TRUE, 1, TRUE, {M_index_js, M_package_json, M_package_lock}),
     Archive(TRUE, 1, TRUE, {M_server_py, M_index_js}),
     Archive(TRUE, max_size_mb, TRUE, {<<"server.py">>, <<"README.md">>}),
     Archive(TRUE, 1, TRUE, {<<"notes.txt">>}),
     Archive(TRUE, 1, TRUE, {}),
     Archive(TRUE, 1, TRUE, {<<"..", "evil.py">>, M_server_py}),
     Archive(TRUE, 1, TRUE, {<<"/", "etc", "passwd">>}),
     Archive(TRUE, max_size_mb + 1, TRUE, {M_server_py}),
     Archive(TRUE, max_size_mb + 1, FALSE, {}),
     Archive(TRUE, 1, FALSE, {}),
     Archive(FALSE, 1, TRUE, {})}

SecurityRecord(sev) ==
    <<Line("Severity", sev), Line("Description", NoText),
      Line("Location", NoText), Line("Recommendation", NoText)>>

SecurityReplies ==
    {<<>>,
     SecurityRecord(T_low),
     SecurityRecord(T_HIGH),
     <<Line("Severity", T_high), Line("Description", NoText)>>
         \o SecurityRecord(T_medium),
     SecurityRecord(T_urgent)}

ViolationRecord(imp) ==
    <<Line("Rule", NoText), Line("Description", NoText), Line("Impact", imp)>>

GuidelineReplies ==
    {<<>>,
     ViolationRecord(T_minor),
     ViolationRecord(T_Critical),
     <<Line("Rule", NoText), Line("Impact", T_critical)>>}

Percentage(k, n) == [kind |-> k, number |-> n]

DescriptionReplies ==
    {Percentage("absent", 0), Percentage("garbled", 0),
     Percentage("percentage", 95), Percentage("percentage", 70),
     Percentage("percentage", 40), Percentage("percentage", 150),
     Percentage("percentage", -20)}

BuildOutcomes(server_type) ==
    IF server_type = "python" THEN {"none", "whl", "sdist"}
    ELSE {"none", "tgz", "raised"}

LaunchOutcomes ==
    {Launch("pipx_install_failed", 0), Launch("raised", 0),
     Launch("exited", 0), Launch("exited", 1), Launch("timeout", 1),
     Launch("blocks", 0)}

----------------------------------------------------------------------------
(* MCPServerConfig and ServerStorageManager.  The "servers" object is the  *)
(* sequence of its <<name, entry>> pairs in insertion order, as a dict    *)
(* keeps them and json.dump writes them.  The registry file is <<>> while *)
(* it does not exist and <<document>> otherwise.                          *)

Names == {"alpha", "beta"}

\* the entry handle_verification builds (server_management.py:198-202)
Entry(name, ty) ==
    [path |-> <<"servers", name>>, description |-> "description", type |-> ty]

Has(servers, name) == \E k \in DOMAIN servers : servers[k][1] = name

\* self.config["servers"][name] = config
dict_set(servers, name, entry) ==
    IF Has(servers, name)
    THEN [k \in DOMAIN servers |->
              IF servers[k][1] = name THEN <<name, entry>> ELSE servers[k]]
    ELSE Append(servers, <<name, entry>>)

\* del self.config["servers"][name]
dict_del(servers, name) == SelectSeq(servers, LAMBDA pr : pr[1] # name)

json_dump(servers) == [servers |-> servers]
json_load(document) == document.servers

\* an absent file is not written
load_config_without_save(file) ==
    IF file # <<>>
    THEN [config |-> json_load(file[1]), file |-> file]
    ELSE [config |-> <<>>, file |-> file]

\* each of the following yields the store's config and the file after it
load_config(file) ==
    IF file # <<>>
    THEN [config |-> json_load(file[1]), file |-> file]
    ELSE [config |-> <<>>, file |-> <<json_dump(<<>>)>>]

add_server(config, file, name, entry) ==
    LET c == dict_set(config, name, entry)
    IN  [config |-> c, file |-> <<json_dump(c)>>]

\* the file is left as it is
remove_server_keeps_file(config, file, name) ==
    IF Has(config, name)
    THEN [config |-> dict_del(config, name), file |-> file]
    ELSE [config |-> config, file |-> file]

remove_server(config, file, name) ==
    IF Has(config, name)
    THEN LET c == dict_del(config, name)
         IN  [config |-> c, file |-> <<json_dump(c)>>]
    ELSE [config |-> config, file |-> file]

list_servers(config) ==
    [k \in DOMAIN config |-> [name |-> config[k][1], config |-> config[k][2]]]

\* the stores: 1 and 2; a store is <<>> until it is constructed
Stores == {1, 2}

Registry(file, stores, storage) ==
    [file |-> file, stores |-> stores, storage |-> storage]

NoRegistry ==
    Registry(<<>>, [i \in Stores |-> <<>>], [n \in Names |-> "absent"])

\* ServerStorageManager.store_server: the old directory is removed, a new
\* one is made, and unpack_archive fills it or raises
store_server(storage, name, unpacked) ==
    [storage EXCEPT ![name] = IF unpacked THEN "new" ELSE "empty"]

\* the server is stored and registered whatever verify() returned
handle_verification_adds_always(reg, i, verdict, name, unpacked, is_python) ==
    IF verdict = "raised"
    THEN [registry |-> reg, returned |-> "none", raised |-> "verify"]
    ELSE LET stored == store_server(reg.storage, name, unpacked)
             a == add_server(reg.stores[i][1], reg.file, name,
                             Entry(name, IF is_python THEN "python"
                                         ELSE "node"))
         IN  [registry |-> Registry(a.file,
                                    [reg.stores EXCEPT ![i] = <<a.config>>],
                                    stored),
              returned |-> verdict, raised |-> "none"]

\* VerificationHandler.handle_verification with the store i as
\* config_manager; verdict is what verify() did
handle_verification(reg, i, verdict, name, unpacked, is_python) ==
    IF verdict = "raised"
    THEN [registry |-> reg, returned |-> "none", raised |-> "verify"]
    ELSE IF verdict = "rejected"
    THEN [registry |-> reg, returned |-> "rejected", raised |-> "none"]
    ELSE LET stored == store_server(reg.storage, name, unpacked)
         IN  IF ~unpacked
             \* the handler builds SecurityIssue(severity="ERROR") without a
             \* recommendation, which does not validate
             THEN [registry |-> [reg EXCEPT !.storage = stored],
                   returned |-> "none", raised |-> "ValidationError"]
             ELSE LET a == add_server(reg.stores[i][1], reg.file, name,
                                      Entry(name, IF is_python THEN "python"
                                                  ELSE "node"))
                  IN  [registry |-> Registry(a.file,
                                        [reg.stores EXCEPT ![i] = <<a.config>>],
                                        stored),
                       returned |-> "approved", raised |-> "none"]

----------------------------------------------------------------------------
(* verify(): the initial state and the walk *)

InitialState ==
    [files |-> <<>>, user_description |-> "description",
     uploaded_zip |-> "uploaded_zip", server_path |-> StrDefault,
     security_issues |-> <<>>, guideline_violations |-> <<>>,
     description_match |-> 0, current_stage |-> "init",
     status |-> "pending", build_artifacts |-> <<>>,
     extract_dir |-> NoPath]

NoWrites == << >>

Init ==
    /\ state = InitialState
    /\ before = InitialState
    /\ twin = InitialState
    /\ twinBefore = InitialState
    /\ scheduled = Successors("START", InitialState)
    /\ writes = NoWrites
    /\ run = "running"
    /\ trace = <<>>
    /\ fs = {}
    /\ process = <<>>
    /\ startup = NoLocals
    /\ platform \in {"posix", "windows"}
    /\ schema \in {"declared", "open"}
    /\ archive \in Archives
    /\ error = "none"
    /\ highReports = 0
    /\ result = <<>>
    /\ faults = {}
    /\ registry = NoRegistry
    /\ calls = <<>>

\* stage n has run and returned or raised
Finish(n, out) ==
    /\ trace' = Append(trace, n)
    /\ scheduled' = scheduled \ {n}
    /\ IF out.raised = "none"
       THEN /\ writes' = (n :> out.state) @@ writes
            /\ run' = run
            /\ error' = error
       ELSE /\ writes' = writes
            /\ run' = "raised"
            /\ error' = out.raised

Ready(n) == run = "running" /\ n \in scheduled

ProcessUpload ==
    /\ Ready("process_upload")
    /\ LET r == _process_upload(state, fs, archive, platform, schema)
       IN  /\ Finish("process_upload", r.out)
           /\ fs' = r.disk
    /\ UNCHANGED <<state, before, twin, twinBefore, process, startup,
                   platform, schema, archive, highReports, result, faults,
                   calls, registry>>

ExtractFiles ==
    /\ Ready("extract_files")
    /\ \E unreadable \in Catalogued(fs, state.server_path) \cup {NoPath} :
       \E order \in Orderings(Catalogued(fs, state.server_path) \ {unreadable}) :
           Finish("extract_files", _extract_files(state, fs, order))
    /\ UNCHANGED <<state, before, twin, twinBefore, fs, process, startup,
                   platform, schema, archive, highReports, result, faults,
                   calls, registry>>

\* what the environment refused: an answer of the reasoning service, or
\* the removal of a path
Fault(k, path) == [kind |-> k, path |-> path]

Asked(reply) ==
    IF reply.failed THEN faults \cup {Fault("llm", NoPath)} ELSE faults

AnalyzeSecurity ==
    /\ Ready("analyze_security")
    /\ \E reply \in {Reply(c) : c \in SecurityReplies} \cup {LLMError} :
           LET out == _analyze_security(state, reply)
           IN  /\ Finish("analyze_security", out)
               /\ faults' = Asked(reply)
               /\ highReports' =
                      IF out.raised = "none" /\ _needs_security_fixes(out.state)
                      THEN highReports + 1
                      ELSE highReports
    /\ UNCHANGED <<state, before, twin, twinBefore, fs, process, startup,
                   platform, schema, archive, result, calls, registry>>

AnalyzeGuidelines ==
    /\ Ready("analyze_guidelines")
    /\ \E reply \in {Reply(c) : c \in GuidelineReplies} \cup {LLMError} :
           /\ Finish("analyze_guidelines", _analyze_guidelines(state, reply))
           /\ faults' = Asked(reply)
    /\ UNCHANGED <<state, before, twin, twinBefore, fs, process, startup,
                   platform, schema, archive, highReports, result, calls,
                   registry>>

AnalyzeDescription ==
    /\ Ready("analyze_description")
    /\ \E reply \in {Reply(c) : c \in DescriptionReplies} \cup {LLMError} :
           /\ Finish("analyze_description", _analyze_description(state, reply))
           /\ faults' = Asked(reply)
    /\ UNCHANGED <<state, before, twin, twinBefore, fs, process, startup,
                   platform, schema, archive, highReports, result, calls,
                   registry>>

VerifyStartup ==
    /\ Ready("verify_startup")
    /\ \E build \in BuildOutcomes(determine_server_type(state.files)) :
       \E launch \in LaunchOutcomes :
           LET r == _verify_startup(state, fs, build, launch)
           IN  /\ fs' = r.disk
               /\ process' = r.process
               /\ startup' = r.locals
               /\ calls' = r.calls
               /\ IF r.blocked
                  THEN /\ run' = "blocked"
                       /\ trace' = Append(trace, "verify_startup")
                       /\ UNCHANGED <<scheduled, writes, error>>
                  ELSE Finish("verify_startup", Outcome(r.state, "none"))
    /\ UNCHANGED <<state, before, twin, twinBefore, platform, schema,
                   archive, highReports, result, faults, registry>>

MakeDecision ==
    /\ Ready("make_decision")
    /\ Finish("make_decision", Outcome(_make_decision(state), "none"))
    /\ UNCHANGED <<state, before, twin, twinBefore, fs, process, startup,
                   platform, schema, archive, highReports, result, faults,
                   calls, registry>>

Cleanup ==
    /\ Ready("cleanup")
    /\ \E failing \in SUBSET (Range(state.build_artifacts) \cup {Scratch}) :
           LET r == _cleanup(state, fs, failing)
           IN  /\ Finish("cleanup", Outcome(r.state, "none"))
               /\ fs' = r.disk
               /\ faults' = faults \cup {Fault("remove", q) : q \in r.logged}
    /\ UNCHANGED <<state, before, twin, twinBefore, process, startup,
                   platform, schema, archive, highReports, result, calls,
                   registry>>

\* verify() lines 106-112: the result built from the final state
VerificationResult(final_state) ==
    [approved |-> final_state.status = "approved",
     security_issues |-> final_state.security_issues,
     guideline_violations |-> final_state.guideline_violations,
     description_match |-> final_state.description_match,
     extract_dir |-> final_state.server_path]

\* VerificationResult.description_match: Field(ge=0.0, le=1.0), validated
\* when verify() constructs the result
VerificationResult_validates(final_state) ==
    final_state.description_match >= 0 /\ final_state.description_match <= 100

\* the end of a step: the returned state becomes the state, and the edges
\* that leave the stage choose the next step; when none is left ainvoke
\* returns and verify() constructs and returns the result, or re-raises
\* the ValidationError of the construction
Step ==
    /\ run = "running"
    /\ scheduled = {}
    /\ DOMAIN writes # {}
    /\ IF Cardinality(DOMAIN writes) > 1
       THEN /\ run' = "raised"
            /\ error' = "InvalidUpdateError"
            /\ UNCHANGED <<state, before, scheduled, writes, result>>
       ELSE LET n == CHOOSE m \in DOMAIN writes : TRUE
                next == Successors(n, writes[n]) \ {"END"}
            IN  /\ state' = writes[n]
                /\ before' = state
                /\ scheduled' = next
                /\ writes' = NoWrites
                /\ IF next # {}
                   THEN /\ run' = "running"
                        /\ UNCHANGED <<result, error>>
                   ELSE IF VerificationResult_validates(writes[n])
                   THEN /\ run' = "END"
                        /\ result' = <<VerificationResult(writes[n])>>
                        /\ error' = error
                   ELSE /\ run' = "raised"
                        /\ error' = "ValidationError"
                        /\ result' = result
    /\ UNCHANGED <<twin, twinBefore, trace, fs, process, startup, platform,
                   schema, archive, highReports, faults, calls, registry>>

Next ==
    \/ ProcessUpload
    \/ ExtractFiles
    \/ AnalyzeSecurity
    \/ AnalyzeGuidelines
    \/ AnalyzeDescription
    \/ VerifyStartup
    \/ MakeDecision
    \/ Cleanup
    \/ Step

Spec == Init /\ [][Next]_vars

----------------------------------------------------------------------------
(* _make_decision as a function: it is applied once to a state object and  *)
(* once to a twin, both drawn from bounded sets.                           *)

MaxIssues == 11

IssueLists ==
    {Repeat(SecurityIssue(T_low), n) :
        n \in {0, 1} \cup (SecurityIssueLimit .. MaxIssues)}

ViolationLists ==
    {<<>>,
     <<GuidelineViolation(T_minor)>>,
     <<GuidelineViolation(T_Critical)>>,
     <<GuidelineViolation(T_minor), GuidelineViolation(T_uncritical)>>,
     <<GuidelineViolation(T_critic)>>}

MatchScores == {50, 59, 60, 79, 80, 95}

DecisionStates ==
    {[InitialState EXCEPT !.security_issues = si,
                          !.guideline_violations = gv,
                          !.description_match = dm,
                          !.status = st,
                          !.current_stage = "verify_startup"] :
        si \in IssueLists, gv \in ViolationLists,
        dm \in MatchScores, st \in StatusValues}

TwinStates ==
    {[InitialState EXCEPT !.security_issues = si,
                          !.guideline_violations = gv,
                          !.description_match = dm,
                          !.status = st,
                          !.current_stage = cs,
                          !.server_path = sp] :
        si \in {<<>>, Repeat(SecurityIssue(T_low), MaxIssues)},
        gv \in {<<>>, <<GuidelineViolation(T_CRITICAL)>>},
        dm \in {59, 95}, st \in StatusValues,
        cs \in {"verify_startup", "description_check"},
        sp \in {StrDefault, Scratch}}

DecisionInit ==
    /\ state \in DecisionStates
    /\ twin \in TwinStates
    /\ before = InitialState
    /\ twinBefore = InitialState
    /\ run = "decide"
    /\ scheduled = {}
    /\ writes = NoWrites
    /\ trace = <<>>
    /\ fs = {}
    /\ process = <<>>
    /\ startup = NoLocals
    /\ platform = "posix"
    /\ schema = "open"
    /\ archive = Archive(FALSE, 1, TRUE, {})
    /\ error = "none"
    /\ highReports = 0
    /\ result = <<>>
    /\ faults = {}
    /\ registry = NoRegistry
    /\ calls = <<>>

Decide ==
    /\ run = "decide"
    /\ before' = state
    /\ twinBefore' = twin
    /\ state' = _make_decision(state)
    /\ twin' = _make_decision(twin)
    /\ run' = "decided"
    /\ UNCHANGED <<scheduled, writes, trace, fs, process, startup, platform,
                   schema, archive, error, highReports, result, faults,
                   calls, registry>>

DecisionNext == Decide

DecisionSpec == DecisionInit /\ [][DecisionNext]_vars

----------------------------------------------------------------------------
(* A process manager alone: stop_server and is_healthy are called, in any  *)
(* order, on a manager that holds any handle self.process can hold.        *)

MaxCalls == 3

ManagerStates ==
    {<<>>,
     <<CompletedProcess(0)>>,
     <<CompletedProcess(1)>>,
     <<Handle("Process", <<>>, "exits")>>,
     <<Handle("Process", <<>>, "ignored")>>,
     <<Handle("Process", <<>>, "raises")>>,
     <<Handle("Process", <<0>>, "raises")>>,
     <<Handle("Process", <<1>>, "raises")>>}

Call(op, p, q, ret, exc) ==
    [op |-> op, before |-> p, after |-> q, returned |-> ret, raised |-> exc]

ManagerInit ==
    /\ process \in ManagerStates
    /\ \E ty \in {"python", "node"} :
           /\ get_process_manager(ty) # "ValueError"
           /\ startup = Locals(ty, NoPath, "unset", "unset", "none")
    /\ calls = <<>>
    /\ run = "manager"
    /\ state = InitialState
    /\ before = InitialState
    /\ twin = InitialState
    /\ twinBefore = InitialState
    /\ scheduled = {}
    /\ writes = NoWrites
    /\ trace = <<>>
    /\ fs = {}
    /\ platform = "posix"
    /\ schema = "open"
    /\ archive = Archive(FALSE, 1, TRUE, {})
    /\ error = "none"
    /\ highReports = 0
    /\ result = <<>>
    /\ faults = {}
    /\ registry = NoRegistry

StopServer ==
    /\ run = "manager"
    /\ Len(calls) < MaxCalls
    /\ LET r == stop_server(process)
       IN  /\ process' = r.process
           /\ calls' = Append(calls, Call("stop_server", process, r.process,
                                          "None", r.raised))
    /\ UNCHANGED <<state, before, twin, twinBefore, scheduled, writes, run,
                   trace, fs, startup, platform, schema, archive, error,
                   highReports, result, faults, registry>>

IsHealthy ==
    /\ run = "manager"
    /\ Len(calls) < MaxCalls
    /\ calls' = Append(calls, Call("is_healthy", process, process,
                                   IF is_healthy(process) THEN "True"
                                   ELSE "False",
                                   "none"))
    /\ UNCHANGED <<state, before, twin, twinBefore, scheduled, writes, run,
                   trace, fs, process, startup, platform, schema, archive,
                   error, highReports, result, faults, registry>>

\* the process behind a handle exits by itself
ProcessExits ==
    /\ run = "manager"
    /\ process # <<>>
    /\ process[1].returncode = <<>>
    /\ \E rc \in {0, 1} :
           process' = <<Handle(process[1].type, <<rc>>, "raises")>>
    /\ UNCHANGED <<state, before, twin, twinBefore, scheduled, writes, run,
                   trace, fs, startup, platform, schema, archive, error,
                   highReports, result, faults, calls, registry>>

ManagerNext ==
    \/ StopServer
    \/ IsHealthy
    \/ ProcessExits

ManagerSpec == ManagerInit /\ [][ManagerNext]_vars

----------------------------------------------------------------------------
(* One registry store alone: it is constructed on a file that is absent,   *)
(* empty or holds one server, and then used in any order.                  *)

MaxOps == 4

InitialRegistries ==
    {NoRegistry,
     Registry(<<json_dump(<<>>)>>, [i \in Stores |-> <<>>],
              [n \in Names |-> "absent"]),
     Registry(<<json_dump(<< <<"alpha", Entry("alpha", "python")>> >>)>>,
              [i \in Stores |-> <<>>],
              [n \in Names |-> IF n = "alpha" THEN "old" ELSE "absent"])}

RegCall(op, i, name, verdict, reg, after, listed, returned, raised) ==
    [op |-> op, store |-> i, name |-> name, verdict |-> verdict,
     before |-> reg, after |-> after, listed |-> listed,
     returned |-> returned, raised |-> raised]

RegistryInitAs(kind) ==
    /\ registry \in InitialRegistries
    /\ calls = <<>>
    /\ run = kind
    /\ state = InitialState
    /\ before = InitialState
    /\ twin = InitialState
    /\ twinBefore = InitialState
    /\ scheduled = {}
    /\ writes = NoWrites
    /\ trace = <<>>
    /\ fs = {}
    /\ process = <<>>
    /\ startup = NoLocals
    /\ platform = "posix"
    /\ schema = "open"
    /\ archive = Archive(FALSE, 1, TRUE, {})
    /\ error = "none"
    /\ highReports = 0
    /\ result = <<>>
    /\ faults = {}

RegistryInit == RegistryInitAs("registry")

Opened(i) == registry.stores[i] # <<>>

Logged(call, after) ==
    /\ registry' = after
    /\ calls' = Append(calls, call)
    /\ UNCHANGED <<state, before, twin, twinBefore, scheduled, writes, run,
                   trace, fs, process, startup, platform, schema, archive,
                   error, highReports, result, faults>>

\* MCPServerConfig.__init__
Construct(i) ==
    /\ run \in {"registry", "shared"}
    /\ ~Opened(i)
    /\ Len(calls) < MaxOps
    /\ LET r == load_config(registry.file)
           after == Registry(r.file,
                             [registry.stores EXCEPT ![i] = <<r.config>>],
                             registry.storage)
       IN  Logged(RegCall("construct", i, "", "", registry, after, <<>>,
                          "None", "none"), after)

AddServer(i) ==
    /\ run = "registry"
    /\ Opened(i)
    /\ Len(calls) < MaxOps
    /\ \E name \in Names : \E ty \in {"python", "node"} :
           LET r == add_server(registry.stores[i][1], registry.file, name,
                               Entry(name, ty))
               after == Registry(r.file,
                                 [registry.stores EXCEPT ![i] = <<r.config>>],
                                 registry.storage)
           IN  Logged(RegCall("add_server", i, name, "", registry, after,
                              <<>>, "None", "none"), after)

RemoveServer(i) ==
    /\ run = "registry"
    /\ Opened(i)
    /\ Len(calls) < MaxOps
    /\ \E name \in Names :
           LET r == remove_server(registry.stores[i][1], registry.file, name)
               after == Registry(r.file,
                                 [registry.stores EXCEPT ![i] = <<r.config>>],
                                 registry.storage)
           IN  Logged(RegCall("remove_server", i, name, "", registry, after,
                              <<>>, "None", "none"), after)

ListServers(i) ==
    /\ run = "registry"
    /\ Opened(i)
    /\ Len(calls) < MaxOps
    /\ Logged(RegCall("list_servers", i, "", "", registry, registry,
                      list_servers(registry.stores[i][1]), "list", "none"),
              registry)

Verdicts == {"approved", "rejected", "raised"}

HandleVerification(i) ==
    /\ run = "registry"
    /\ Opened(i)
    /\ Len(calls) < MaxOps
    /\ \E verdict \in Verdicts : \E name \in Names :
       \E unpacked \in BOOLEAN : \E is_python \in BOOLEAN :
           LET r == handle_verification(registry, i, verdict, name, unpacked,
                                        is_python)
           IN  Logged(RegCall("handle_verification", i, name, verdict,
                              registry, r.registry, <<>>, r.returned,
                              r.raised), r.registry)

RegistryNext ==
    \/ Construct(1)
    \/ AddServer(1)
    \/ RemoveServer(1)
    \/ ListServers(1)
    \/ HandleVerification(1)

RegistrySpec == RegistryInit /\ [][RegistryNext]_vars

----------------------------------------------------------------------------
(* Two verification runs, each with a store of its own on the same         *)
(* registry file; run 1 verifies the server alpha, run 2 the server beta.  *)

SharedInit == RegistryInitAs("shared")

OwnName(i) == IF i = 1 THEN "alpha" ELSE "beta"

Handled(i) ==
    \E k \in DOMAIN calls :
        calls[k].op = "handle_verification" /\ calls[k].store = i

Verification(i) ==
    /\ run = "shared"
    /\ Opened(i)
    /\ ~Handled(i)
    /\ \E verdict \in Verdicts :
       \E unpacked \in BOOLEAN : \E is_python \in BOOLEAN :
           LET r == handle_verification(registry, i, verdict, OwnName(i),
                                        unpacked, is_python)
           IN  Logged(RegCall("handle_verification", i, OwnName(i), verdict,
                              registry, r.registry, <<>>, r.returned,
                              r.raised), r.registry)

SharedNext ==
    \E i \in Stores :
        \/ Construct(i)
        \/ Verification(i)

SharedRegistrySpec == SharedInit /\ [][SharedNext]_vars

----------------------------------------------------------------------------
(* determine_server_type as a function: it is applied once to a catalog    *)
(* drawn from the subsets of CatalogFiles.                                 *)

CatalogFiles ==
    <<"server.py", "index.js", "app.ts", "requirements.txt",
      "pyproject.toml", "package.json", "README.md">>

\* the catalog that holds the files of CatalogFiles numbered in S
CatalogOf(S) ==
    LET kept == SelectSeq([k \in DOMAIN CatalogFiles |-> k],
                          LAMBDA k : k \in S)
    IN  [j \in DOMAIN kept |-> ServerFile(<<"pkg", CatalogFiles[kept[j]]>>)]

ClassifyInit ==
    /\ \E S \in SUBSET DOMAIN CatalogFiles :
           state = [InitialState EXCEPT !.files = CatalogOf(S),
                                        !.server_path = Scratch]
    /\ run = "classify"
    /\ before = InitialState
    /\ twin = InitialState
    /\ twinBefore = InitialState
    /\ scheduled = {}
    /\ writes = NoWrites
    /\ trace = <<>>
    /\ fs = {}
    /\ process = <<>>
    /\ startup = NoLocals
    /\ platform = "posix"
    /\ schema = "open"
    /\ archive = Archive(FALSE, 1, TRUE, {})
    /\ error = "none"
    /\ highReports = 0
    /\ result = <<>>
    /\ faults = {}
    /\ calls = <<>>
    /\ registry = NoRegistry

Classify ==
    /\ run = "classify"
    /\ LET server_type == determine_server_type(state.files)
       IN  startup' = IF server_type = "ValueError"
                      THEN Locals("unset", NoPath, "unset", "unset",
                                  "ValueError")
                      ELSE Locals(server_type, NoPath, "unset", "unset",
                                  "none")
    /\ run' = "classified"
    /\ UNCHANGED <<state, before, twin, twinBefore, scheduled, writes, trace,
                   fs, process, platform, schema, archive, error,
                   highReports, result, faults, calls, registry>>

ClassifyNext == Classify

ClassifySpec == ClassifyInit /\ [][ClassifyNext]_vars

----------------------------------------------------------------------------
(* The reply parsers as functions: each is applied once to a reply drawn   *)
(* from the sequences of at most MaxLines lines.                           *)

MaxLines == 5

SecurityLines ==
    {Line("Severity", T_HIGH), Line("Severity", T_urgent),
     Line("Description", NoText), Line("Location", NoText),
     Line("Recommendation", NoText), Line("text", NoText)}

ViolationLines ==
    {Line("Rule", NoText), Line("Description", NoText),
     Line("Impact", T_critical), Line("text", NoText)}

Responses(lines) == UNION {[1..n -> lines] : n \in 0..MaxLines}

ParseCall(op, response, returned) ==
    [op |-> op, response |-> response, returned |-> returned]

ParseInit ==
    /\ \/ \E r \in Responses(SecurityLines) :
              calls = <<ParseCall("_parse_security_issues", r, <<>>)>>
       \/ \E r \in Responses(ViolationLines) :
              calls = <<ParseCall("_parse_violations", r, <<>>)>>
    /\ run = "parse"
    /\ state = InitialState
    /\ before = InitialState
    /\ twin = InitialState
    /\ twinBefore = InitialState
    /\ scheduled = {}
    /\ writes = NoWrites
    /\ trace = <<>>
    /\ fs = {}
    /\ process = <<>>
    /\ startup = NoLocals
    /\ platform = "posix"
    /\ schema = "open"
    /\ archive = Archive(FALSE, 1, TRUE, {})
    /\ error = "none"
    /\ highReports = 0
    /\ result = <<>>
    /\ faults = {}
    /\ registry = NoRegistry

ParseSecurityIssues ==
    /\ run = "parse"
    /\ calls[1].op = "_parse_security_issues"
    /\ calls' = <<ParseCall(calls[1].op, calls[1].response,
                            _parse_security_issues(calls[1].response))>>
    /\ run' = "parsed"
    /\ UNCHANGED <<state, before, twin, twinBefore, scheduled, writes, trace,
                   fs, process, startup, platform, schema, archive, error,
                   highReports, result, faults, registry>>

ParseViolations ==
    /\ run = "parse"
    /\ calls[1].op = "_parse_violations"
    /\ calls' = <<ParseCall(calls[1].op, calls[1].response,
                            _parse_violations(calls[1].response))>>
    /\ run' = "parsed"
    /\ UNCHANGED <<state, before, twin, twinBefore, scheduled, writes, trace,
                   fs, process, startup, platform, schema, archive, error,
                   highReports, result, faults, registry>>

ParseNext == ParseSecurityIssues \/ ParseViolations

ParseSpec == ParseInit /\ [][ParseNext]_vars

----------------------------------------------------------------------------
(* ServerProcessManager.  launched is the sequence of the processes that   *)
(* create_subprocess_exec made, each [name, status]; a process is named by *)
(* its place in launched.  tracked is self.processes: <<>> for a name that *)
(* is not a key, <<pid>> otherwise.                                        *)

MaxLaunches == 3

Servers(tracked, launched) == [tracked |-> tracked, launched |-> launched]

NoServers == Servers([n \in Names |-> <<>>], <<>>)

\* MCPServerConfig.get_server: <<>> for None
get_server(servers, name) ==
    IF Has(servers, name)
    THEN <<(CHOOSE k \in DOMAIN servers : servers[k][1] = name)>>
    ELSE <<>>

ServerResult(m, returned, raised, blocked) ==
    [servers |-> m, returned |-> returned, raised |-> raised,
     blocked |-> blocked]

\* ServerProcessManager.start_server.  outcome: "raised" when glob finds no
\* main file or the exec fails, "exited" when proc.wait() returns within
\* the second, "stays" when wait_for times out
ServerProcessManager_start_server(m, servers, name, outcome) ==
    IF get_server(servers, name) = <<>>
    THEN ServerResult(m, "False", "none", FALSE)
    ELSE IF outcome = "raised"
    THEN ServerResult(m, "False", "none", FALSE)
    ELSE IF outcome = "exited"
    THEN ServerResult(
             Servers(m.tracked,
                     Append(m.launched,
                            [name |-> name, status |-> "exited"])),
             "False", "none", FALSE)
    ELSE LET pid == Len(m.launched) + 1
         IN  ServerResult(
                 Servers([m.tracked EXCEPT ![name] = <<pid>>],
                         Append(m.launched,
                                [name |-> name, status |-> "running"])),
                 "True", "none", FALSE)

\* ServerProcessManager.stop_server.  outcome: "terminated" when
\* terminate() and wait() return, "ignored" when the process outlives the
\* signal and wait() never returns, "lookup_error" when the process is gone
\* and terminate() and then kill() raise ProcessLookupError
ServerProcessManager_stop_server(m, name, outcome) ==
    IF m.tracked[name] = <<>>
    THEN ServerResult(m, "None", "none", FALSE)
    ELSE LET pid == m.tracked[name][1]
             untracked == [m.tracked EXCEPT ![name] = <<>>]
         IN  IF outcome = "ignored"
             THEN ServerResult(m, "pending", "none", TRUE)
             ELSE IF outcome = "lookup_error"
             THEN ServerResult(Servers(untracked, m.launched), "none",
                               "ProcessLookupError", FALSE)
             ELSE ServerResult(
                      Servers(untracked,
                              [m.launched EXCEPT ![pid].status = "exited"]),
                      "None", "none", FALSE)

\* ServerProcessManager.restart_server
ServerProcessManager_restart_server(m, servers, name, stopping, outcome) ==
    LET stopped == ServerProcessManager_stop_server(m, name, stopping)
    IN  IF stopped.blocked \/ stopped.raised # "none"
        THEN stopped
        ELSE ServerProcessManager_start_server(stopped.servers, servers,
                                               name, outcome)

\* ServerProcessManager.is_running
ServerProcessManager_is_running(m, name) ==
    /\ m.tracked[name] # <<>>
    /\ m.launched[m.tracked[name][1]].status = "running"

\* what terminate() may meet for the process tracked under name
StopOutcomes(m, name) ==
    IF m.tracked[name] = <<>> THEN {"terminated"}
    ELSE IF m.launched[m.tracked[name][1]].status = "running"
    THEN {"terminated", "ignored"}
    ELSE {"terminated", "lookup_error"}

StartOutcomes == {"raised", "exited", "stays"}

ServerCall(op, name, m, r) ==
    [op |-> op, name |-> name, before |-> m, returned |-> r.returned,
     raised |-> r.raised]

ServerInit ==
    /\ \E servers \in
           {<< <<"alpha", Entry("alpha", "python")>> >>,
            << <<"alpha", Entry("alpha", "python")>>,
               <<"beta", Entry("beta", "node")>> >>} :
           registry = Registry(<<json_dump(servers)>>,
                               [i \in Stores |->
                                   IF i = 1 THEN <<servers>> ELSE <<>>],
                               [n \in Names |->
                                   IF Has(servers, n) THEN "new"
                                   ELSE "absent"])
    /\ process = NoServers
    /\ calls = <<>>
    /\ run = "servers"
    /\ state = InitialState
    /\ before = InitialState
    /\ twin = InitialState
    /\ twinBefore = InitialState
    /\ scheduled = {}
    /\ writes = NoWrites
    /\ trace = <<>>
    /\ fs = {}
    /\ startup = NoLocals
    /\ platform = "posix"
    /\ schema = "open"
    /\ archive = Archive(FALSE, 1, TRUE, {})
    /\ error = "none"
    /\ highReports = 0
    /\ result = <<>>
    /\ faults = {}

\* the call op on name ended as r
Served(op, name, r) ==
    /\ process' = r.servers
    /\ calls' = <<ServerCall(op, name, process, r)>>
    /\ run' = IF r.blocked THEN "blocked" ELSE run
    /\ UNCHANGED <<state, before, twin, twinBefore, scheduled, writes, trace,
                   fs, startup, platform, schema, archive, error,
                   highReports, result, faults, registry>>

ServerStart(name) ==
    /\ run = "servers"
    /\ Len(process.launched) < MaxLaunches
    /\ \E outcome \in StartOutcomes :
           Served("start_server", name,
                  ServerProcessManager_start_server(
                      process, registry.stores[1][1], name, outcome))

ServerStop(name) ==
    /\ run = "servers"
    /\ \E stopping \in StopOutcomes(process, name) :
           Served("stop_server", name,
                  ServerProcessManager_stop_server(process, name, stopping))

ServerRestart(name) ==
    /\ run = "servers"
    /\ Len(process.launched) < MaxLaunches
    /\ \E stopping \in StopOutcomes(process, name) :
       \E outcome \in StartOutcomes :
           Served("restart_server", name,
                  ServerProcessManager_restart_server(
                      process, registry.stores[1][1], name, stopping,
                      outcome))

ServerIsRunning(name) ==
    /\ run = "servers"
    /\ Served("is_running", name,
              ServerResult(process,
                           IF ServerProcessManager_is_running(process, name)
                           THEN "True" ELSE "False",
                           "none", FALSE))

\* a launched process ends by itself
ServerExits ==
    /\ run = "servers"
    /\ \E pid \in DOMAIN process.launched :
           /\ process.launched[pid].status = "running"
           /\ process' = [process EXCEPT !.launched[pid].status = "exited"]
    /\ UNCHANGED <<state, before, twin, twinBefore, scheduled, writes, run,
                   trace, fs, startup, platform, schema, archive, error,
                   highReports, result, faults, calls, registry>>

ServerNext ==
    \/ \E name \in Names : ServerStart(name)
    \/ \E name \in Names : ServerStop(name)
    \/ \E name \in Names : ServerRestart(name)
    \/ \E name \in Names : ServerIsRunning(name)
    \/ ServerExits

ServerSpec == ServerInit /\ [][ServerNext]_vars

----------------------------------------------------------------------------
(* Properties of _make_decision *)

\* a stage's returned state has just become the state
Committed(n) ==
    /\ run \in {"running", "END"}
    /\ writes = NoWrites
    /\ trace # <<>>
    /\ trace[Len(trace)] = n

DecisionMade == run = "decided" \/ Committed("make_decision")

\* C4: under the default policy make_decision rejects every state that
\* holds at least one security finding.  (The code rejects on the count
\* only above SecurityIssueLimit.)
C4_RejectsAnyFinding ==
    (DecisionMade /\ Len(before.security_issues) > 0)
        => state.status = "rejected"

\* C5: under the default policy make_decision rejects every state whose
\* description_match is below 0.8.  (The code compares with MatchThreshold.)
C5_RejectsBelowDefault ==
    (DecisionMade /\ before.description_match < 80)
        => state.status = "rejected"

CriticalImpact(s) ==
    \E i \in 1..Len(s.guideline_violations) :
        Contains(T_critical, lower(s.guideline_violations[i].impact))

OtherCriteriaPass(s) ==
    /\ s.security_issues = <<>>
    /\ s.description_match >= MatchThreshold
    /\ s.status = "pending"

\* C6: a violation whose impact contains "critical" in any letter case
\* always rejects; when no security finding exists, description_match is at
\* or above the threshold and status is pending, the state is rejected if
\* such a violation exists and approved if none does.
C6_CriticalImpactDecides ==
    run = "decided" =>
        /\ CriticalImpact(before) => state.status = "rejected"
        /\ OtherCriteriaPass(before) =>
               state.status = IF CriticalImpact(before)
                              THEN "rejected" ELSE "approved"

C6_Witness ==
    /\ run = "decided"
    /\ OtherCriteriaPass(before)
    /\ before.guideline_violations = <<GuidelineViolation(T_Critical)>>
    /\ state.status = "rejected"

\* C7: make_decision approves whenever there is no security finding, no
\* violation with a critical impact, description_match >= 0.8 and status is
\* not already rejected.
C7_ApprovesClean ==
    (/\ run = "decided"
     /\ before.security_issues = <<>>
     /\ ~CriticalImpact(before)
     /\ before.description_match >= 80
     /\ before.status # "rejected")
        => state.status = "approved"

C7_Witness ==
    /\ run = "decided"
    /\ before.security_issues = <<>>
    /\ before.guideline_violations = <<>>
    /\ before.description_match = 95
    /\ before.status = "pending"
    /\ state.status = "approved"

SameDecisionInputs(a, b) ==
    /\ a.security_issues = b.security_issues
    /\ a.guideline_violations = b.guideline_violations
    /\ a.description_match = b.description_match
    /\ a.status = b.status

\* C8: two states that agree on security_issues, guideline_violations,
\* description_match and status get the same status from make_decision, and
\* make_decision leaves every field but status as it was.
C8_PureOfFourFields ==
    run = "decided" =>
        /\ [state EXCEPT !.status = before.status] = before
        /\ [twin EXCEPT !.status = twinBefore.status] = twinBefore
        /\ SameDecisionInputs(before, twinBefore) => state.status = twin.status

C8_Witness ==
    /\ run = "decided"
    /\ SameDecisionInputs(before, twinBefore)
    /\ before.current_stage # twinBefore.current_stage
    /\ before.server_path # twinBefore.server_path
    /\ state.status = twin.status
    /\ state.current_stage = before.current_stage

----------------------------------------------------------------------------
(* Properties of the walk, under Spec *)

HighFinding(s) ==
    \E i \in 1..Len(s.security_issues) : s.security_issues[i].severity = T_high

Count(seq, x) == Cardinality({i \in 1..Len(seq) : seq[i] = x})

\* C1: after analyze_security the next step is analyze_security alone when
\* some finding has severity high, and analyze_guidelines alone when none
\* has.
C1_LoopBackOrAdvance ==
    (Committed("analyze_security") /\ run = "running") =>
        scheduled = IF HighFinding(state)
                    THEN {"analyze_security"}
                    ELSE {"analyze_guidelines"}

AlwaysHigh ==
    /\ highReports >= 1
    /\ highReports = Count(trace, "analyze_security")

StageErrors ==
    {"AttributeError", "FileNotFoundError", "ValueError", "LLMError"}

\* C2: when every execution of analyze_security reports a high finding,
\* analyze_security runs at most N+1 times for a fixed N, and the run then
\* goes on to the later stages or ends rejected: it is not ended by an error
\* that no stage raised.
C2_BoundedRemediation ==
    AlwaysHigh =>
        /\ \E N \in 0..3 : Count(trace, "analyze_security") <= N + 1
        /\ run = "raised" => error \in StageErrors

\* C3: a run that reaches END has executed process_upload, extract_files,
\* analyze_security one or more times, analyze_guidelines,
\* analyze_description, verify_startup, make_decision and cleanup, in that
\* order and each but analyze_security exactly once.
C3_FixedOrder ==
    run = "END" =>
        \E k \in 1..Len(trace) :
            trace = <<"process_upload", "extract_files">>
                    \o Repeat("analyze_security", k)
                    \o <<"analyze_guidelines", "analyze_description",
                         "verify_startup", "make_decision", "cleanup">>

C3_Witness ==
    /\ run = "END"
    /\ Count(trace, "cleanup") = 1
    /\ Count(trace, "analyze_security") >= 1

\* C9: status changes only from pending, to approved or to rejected.
C9_StatusLeavesOnlyPending ==
    [][state'.status # state.status =>
          /\ state.status = "pending"
          /\ state'.status \in {"approved", "rejected"}]_vars

\* make_decision has kept a rejection of verify_startup that the findings
\* alone would not have produced
C9_Witness ==
    /\ Committed("make_decision")
    /\ before.status = "rejected"
    /\ state.status = "rejected"
    /\ Len(before.security_issues) <= SecurityIssueLimit
    /\ ~CriticalImpact(before)
    /\ before.description_match >= MatchThreshold

\* C10: a run ends approved only if verify_startup got a package path from
\* the build, true from start_server and true from is_healthy; when the
\* build gave none, or start_server or is_healthy gave false, the run ends
\* rejected.
C10_ApprovedOnlyAfterHealthyStart ==
    run = "END" =>
        /\ state.status = "approved" =>
               /\ startup.package_path # NoPath
               /\ startup.startup_success = "true"
               /\ startup.is_healthy = "true"
        /\ (\/ startup.package_path = NoPath
            \/ startup.startup_success = "false"
            \/ startup.is_healthy = "false") => state.status = "rejected"

C10_Witness ==
    /\ run = "END"
    /\ state.status = "approved"
    /\ startup.package_path # NoPath
    /\ startup.startup_success = "true"
    /\ startup.is_healthy = "true"

----------------------------------------------------------------------------
(* Failure paths of verify() and cleanup *)

\* a path of the scratch directory or a recorded build artifact is on disk
Leaked(s) ==
    \/ Scratch \in fs
    \/ \E a \in Range(s.build_artifacts) : a \in fs

\* C11: cleanup runs on the failure path: when a stage raises after
\* process_upload has created the scratch directory, cleanup has run by the
\* time the error leaves verify(), and neither the scratch directory nor a
\* recorded build artifact is left on disk.
C11_CleanupOnFailure ==
    (run = "raised" /\ Len(trace) >= 2) =>
        /\ "cleanup" \in Range(trace)
        /\ ~Leaked(state)

\* C12: when cleanup has completed and no removal failed, the scratch
\* directory is gone and no path recorded in build_artifacts exists.
C12_CleanupRemovesEverything ==
    (Committed("cleanup") /\ faults = {}) => ~Leaked(state)

\* the four fields of the result
SameResultFields(s1, s2) ==
    /\ s1.status = s2.status
    /\ s1.security_issues = s2.security_issues
    /\ s1.guideline_violations = s2.guideline_violations
    /\ s1.description_match = s2.description_match

RemovalFailed == \E q \in fs : Fault("remove", q) \in faults

LastStage(n) == trace # <<>> /\ trace[Len(trace)] \in n

\* C14: an error raised inside process_upload, extract_files or one of the
\* three analyzers (a refused answer of the reasoning service included)
\* leaves verify() as a raised error: the run is "raised", no later stage
\* runs and no result is returned.
C14_StageErrorIsRaised ==
    /\ Fault("llm", NoPath) \in faults =>
           /\ run = "raised"
           /\ error = "LLMError"
    /\ error \in {"AttributeError", "FileNotFoundError", "ValueError",
                  "LLMError"} =>
           /\ run = "raised"
           /\ result = <<>>
           /\ LastStage({"process_upload", "extract_files",
                         "analyze_security", "analyze_guidelines",
                         "analyze_description"})
    /\ run = "raised" => result = <<>>

C14_Witness ==
    /\ Fault("llm", NoPath) \in faults
    /\ run = "raised"
    /\ LastStage({"analyze_description"})
    /\ result = <<>>

\* verify_startup found the server type and then the build or the launch
\* failed
StartupFailed ==
    /\ startup.server_type \in {"python", "node"}
    /\ \/ startup.package_path = NoPath
       \/ startup.startup_success = "false"
       \/ startup.raised = "TypeError"

\* C15: a build or launch failure during verify_startup (no artifact from
\* the build, the launch raising, start_server returning false) is turned
\* into status rejected: the run does not raise, goes on through
\* make_decision and cleanup, and returns a result with approved false.
C15_StartupFailureIsRejected ==
    StartupFailed =>
        /\ run \in {"running", "END"}
        /\ error = "none"
        /\ Committed("verify_startup") => state.status = "rejected"
        /\ run = "END" =>
               /\ Len(trace) >= 3
               /\ SubSeq(trace, Len(trace) - 2, Len(trace)) =
                      <<"verify_startup", "make_decision", "cleanup">>
               /\ result # <<>>
               /\ ~result[1].approved

C15_Witness ==
    /\ StartupFailed
    /\ startup.startup_success = "false"
    /\ run = "END"
    /\ result # <<>>
    /\ ~result[1].approved

\* determine_server_type raised inside verify_startup
ClassificationFailed ==
    /\ startup.server_type = "unset"
    /\ startup.raised = "ValueError"

\* C16: a classification error is fatal: when determine_server_type raises
\* while verify_startup resolves the server type, the run ends with a
\* raised error and returns no result.
C16_ClassificationErrorIsFatal ==
    ClassificationFailed =>
        /\ run = "raised"
        /\ result = <<>>

\* C17: the launcher is stopped when verify_startup ends: once the stage
\* after verify_startup has begun, the process manager holds no process
\* handle.
C17_StoppedAfterStartup ==
    "make_decision" \in Range(trace) => process = <<>>

\* C18: is_healthy is true exactly when the manager holds a handle whose
\* process has not exited (returncode None); it is false for a handle
\* whose process exited with code 0.
C18_HealthyIffRunning ==
    startup.is_healthy # "unset" =>
        (startup.is_healthy = "true" <=>
             (process # <<>> /\ process[1].returncode = <<>>))

\* C19: stop_server is idempotent and always clears the handle: from any
\* manager state (no handle, running, exited, terminate ignored, terminate
\* raising), of the Python and of the Node manager, stop_server returns
\* without raising and leaves no handle; is_healthy is false afterwards
\* and a second stop_server finds and leaves the manager without a handle.
C19_StopIdempotent ==
    run = "manager" =>
        \A i \in DOMAIN calls :
            /\ calls[i].raised = "none"
            /\ calls[i].op = "stop_server" =>
                   /\ calls[i].after = <<>>
                   /\ process = <<>>
                   /\ \A j \in DOMAIN calls : j > i =>
                          /\ calls[j].before = <<>>
                          /\ calls[j].after = <<>>
                          /\ calls[j].op = "is_healthy" =>
                                 calls[j].returned = "False"

C19_Witness ==
    /\ run = "manager"
    /\ Len(calls) = 3
    /\ calls[1].op = "stop_server"
    /\ calls[1].before # <<>>
    /\ calls[1].before[1].returncode = <<>>
    /\ calls[1].before[1].terminate = "ignored"
    /\ calls[2].op = "is_healthy"
    /\ calls[2].returned = "False"
    /\ calls[3].op = "stop_server"
    /\ startup.server_type = "node"
    /\ process = <<>>

\* start_server(package_path, package_name) was called and the call ended
StartCalled ==
    /\ "verify_startup" \in Range(trace)
    /\ run # "blocked"
    /\ startup.package_path # NoPath

\* C20: start_server(package_path, package_name) never raises, for the
\* Python and for the Node manager: every call that ends returns true or
\* false.
C20_StartNeverRaises ==
    StartCalled =>
        /\ startup.raised = "none"
        /\ startup.startup_success \in {"true", "false"}

----------------------------------------------------------------------------
(* Startup polling, intake and the match score *)

\* C21: when start_server returns false because the server did not become
\* healthy within the 10 polls or within the startup timeout, the manager
\* holds no process handle when start_server returns.
C21_FailedStartClearsHandle ==
    startup.startup_success = "false" => process = <<>>

\* UploadHandler.process_upload was called with an archive that exists
UploadCalled ==
    /\ schema = "open"
    /\ "process_upload" \in Range(trace)
    /\ archive.exists

\* archive members found below the scratch directory
Written == {q \in fs : IsPrefix(Scratch, q) /\ q # Scratch}

\* C26: for an archive larger than max_size_mb process_upload fails with
\* the size error (a ValueError), no member is extracted, no extraction
\* directory is left behind and server_path is not set.
C26_OversizeRejected ==
    (UploadCalled /\ archive.size_mb > max_size_mb) =>
        /\ run = "raised"
        /\ error = "ValueError"
        /\ trace = <<"process_upload">>
        /\ fs = {}
        /\ state.server_path = StrDefault

C26_Witness ==
    /\ UploadCalled
    /\ archive.size_mb = max_size_mb + 1
    /\ archive.members # {}
    /\ run = "raised"
    /\ fs = {}

\* a member name that leaves the extraction root
Escapes(m) == m # <<>> /\ Head(m) \in {"/", ".."}

\* C27: for an archive with a member path that escapes the extraction root
\* ("../evil.py", "/etc/passwd") process_upload fails before any member
\* is written to disk.
C27_EscapingMemberRejected ==
    (/\ UploadCalled
     /\ archive.size_mb <= max_size_mb
     /\ archive.zip_ok
     /\ \E m \in archive.members : Escapes(m)) =>
        /\ run = "raised"
        /\ error = "ValueError"
        /\ Written = {}

\* C28: a valid archive within the size cap whose members are all relative
\* and stay inside the extraction root is accepted: process_upload does
\* not raise, the members are extracted into the scratch directory and
\* server_path is that directory.
C28_SafeArchiveAccepted ==
    (/\ UploadCalled
     /\ archive.size_mb <= max_size_mb
     /\ archive.zip_ok
     /\ archive.members # {}
     /\ \A m \in archive.members : ~Escapes(m)
     /\ trace = <<"process_upload">>) =>
        /\ run = "running"
        /\ writes # NoWrites
        /\ writes["process_upload"].server_path = Scratch
        /\ extractall(archive.members) \subseteq fs

\* C30: description_match is in [0,1] (0..100 hundredths) in every state of
\* a run, in every state a stage returns and in every returned result.
C30_MatchInUnitInterval ==
    /\ state.description_match \in 0..100
    /\ \A n \in DOMAIN writes : writes[n].description_match \in 0..100
    /\ result # <<>> => result[1].description_match \in 0..100

----------------------------------------------------------------------------
(* The registry *)

\* calls k, k+1 and k+2 are add_server(name, entry), list_servers and
\* remove_server(name)
RoundTrip(k) ==
    /\ k + 2 \in DOMAIN calls
    /\ calls[k].op = "add_server"
    /\ calls[k + 1].op = "list_servers"
    /\ calls[k + 2].op = "remove_server"
    /\ calls[k + 2].name = calls[k].name

\* two registry files hold the same document, whatever the order of keys
SameDocument(f, g) ==
    /\ f # <<>>
    /\ g # <<>>
    /\ Range(json_load(f[1])) = Range(json_load(g[1]))

\* C22: for every registry state, name and entry, add_server(name, entry),
\* list_servers, remove_server(name) leaves the registry file equal (key
\* order aside) to the file before the add.
C22_RoundTrip ==
    run = "registry" =>
        \A k \in DOMAIN calls :
            RoundTrip(k) =>
                SameDocument(calls[k + 2].after.file, calls[k].before.file)

\* C22 as it holds: for a name that is not registered before the add,
\* add_server(name, entry), list_servers, remove_server(name) lists the
\* name with its entry in between and leaves the registry file equal to
\* the file before the add, key order included.
C22_RoundTripOfNewName ==
    run = "registry" =>
        \A k \in DOMAIN calls :
            (RoundTrip(k) /\ ~Has(calls[k].before.stores[1][1], calls[k].name))
            =>  /\ SameDocument(calls[k + 2].after.file, calls[k].before.file)
                /\ calls[k + 2].after.file = calls[k].before.file
                /\ \E j \in DOMAIN calls[k + 1].listed :
                       calls[k + 1].listed[j].name = calls[k].name

C22_Witness ==
    /\ run = "registry"
    /\ Len(calls) = 4
    /\ RoundTrip(2)
    /\ calls[2].name = "beta"
    /\ Has(calls[2].before.stores[1][1], "alpha")
    /\ Len(calls[3].listed) = 2
    /\ calls[4].after.file = calls[2].before.file

\* C23: the registry is write-through: after construction (an absent file
\* gives an empty registry) and after every add_server and remove_server
\* the file holds the document of the store's config, a store loaded from
\* the file lists the same servers, and each name is listed once.
C23_WriteThrough ==
    run = "registry" =>
        \A k \in DOMAIN calls :
            calls[k].op \in {"construct", "add_server", "remove_server"} =>
                LET config == calls[k].after.stores[1][1]
                    file == calls[k].after.file
                IN  /\ file # <<>>
                    /\ file[1] = json_dump(config)
                    /\ list_servers(load_config(file).config) =
                           list_servers(config)
                    /\ \A a, b \in DOMAIN config :
                           config[a][1] = config[b][1] => a = b
                    /\ (calls[k].op = "construct"
                        /\ calls[k].before.file = <<>>) => config = <<>>

C23_Witness ==
    /\ run = "registry"
    /\ Len(calls) = 4
    /\ calls[1].op = "construct"
    /\ calls[1].before.file = <<>>
    /\ calls[2].op = "add_server"
    /\ calls[3].op = "add_server"
    /\ calls[3].name = calls[2].name
    /\ calls[4].op = "remove_server"
    /\ registry.file = <<json_dump(<<>>)>>

\* both runs were approved and registered their server
BothApproved ==
    \A i \in Stores :
        \E k \in DOMAIN calls :
            /\ calls[k].op = "handle_verification"
            /\ calls[k].store = i
            /\ calls[k].returned = "approved"

\* C24: no lost update: when two runs with separate stores on the same
\* registry file both approve and add different names, the file holds both
\* entries at the end, however their load and add steps interleave.
C24_NoLostUpdate ==
    (run = "shared" /\ BothApproved) =>
        /\ registry.file # <<>>
        /\ Has(json_load(registry.file[1]), "alpha")
        /\ Has(json_load(registry.file[1]), "beta")

\* C25: handle_verification writes the registry entry and the stored
\* server files only when verify() returned an approved result: after a
\* rejected result or an error raised by verify() the registry file, the
\* store's config and the stored files are as before, and an approved
\* result whose files were stored is registered under server_name.
C25_PersistOnlyOnApproval ==
    run = "registry" =>
        \A k \in DOMAIN calls :
            calls[k].op = "handle_verification" =>
                /\ calls[k].verdict # "approved" =>
                       calls[k].after = calls[k].before
                /\ calls[k].after # calls[k].before =>
                       calls[k].verdict = "approved"
                /\ calls[k].returned = "approved" =>
                       /\ Has(json_load(calls[k].after.file[1]), calls[k].name)
                       /\ calls[k].after.storage[calls[k].name] = "new"

C25_Witness ==
    /\ run = "registry"
    /\ Len(calls) = 3
    /\ calls[2].op = "handle_verification"
    /\ calls[2].verdict = "rejected"
    /\ calls[2].name = "beta"
    /\ calls[3].op = "handle_verification"
    /\ calls[3].verdict = "approved"
    /\ calls[3].name = "beta"
    /\ Has(json_load(registry.file[1]), "beta")

----------------------------------------------------------------------------
(* Classification *)

\* the catalog holds a file named name
Holds(name) == \E i \in DOMAIN state.files : Basename(state.files[i].path) = name

PySources == Holds("server.py")
NodeSources == Holds("index.js") \/ Holds("app.ts")
PyManifest == Holds("requirements.txt") \/ Holds("pyproject.toml")
NodeManifest == Holds("package.json")

\* C29: a catalog with only .py sources plus requirements.txt is python;
\* one with only .js/.ts sources plus package.json is node; one with both
\* kinds of sources and both kinds of manifest raises the classification
\* error; with both kinds of sources a manifest of one ecosystem alone
\* decides the type.
C29_Classification ==
    run = "classified" =>
        /\ (PySources /\ ~NodeSources /\ Holds("requirements.txt")) =>
               startup.server_type = "python"
        /\ (NodeSources /\ ~PySources /\ NodeManifest) =>
               startup.server_type = "node"
        /\ (PySources /\ NodeSources /\ PyManifest /\ NodeManifest) =>
               /\ startup.server_type = "unset"
               /\ startup.raised = "ValueError"
        /\ (PySources /\ NodeSources /\ PyManifest /\ ~NodeManifest) =>
               startup.server_type = "python"
        /\ (PySources /\ NodeSources /\ NodeManifest /\ ~PyManifest) =>
               startup.server_type = "node"

C29_Witness ==
    /\ run = "classified"
    /\ PySources
    /\ Holds("app.ts")
    /\ Holds("requirements.txt")
    /\ NodeManifest
    /\ startup.raised = "ValueError"

----------------------------------------------------------------------------
(* The catalog, the steps of a run and the analyzers' frame *)

\* stages that follow extract_files
LaterStages ==
    {"analyze_security", "analyze_guidelines", "analyze_description",
     "verify_startup", "make_decision", "cleanup"}

\* C31: files is never empty when make_decision runs: an empty catalog
\* makes extract_files fail the run, and no stage after extract_files
\* changes files.
C31_FilesNeverEmptyAtDecision ==
    /\ "make_decision" \in Range(trace) => state.files # <<>>
    /\ \A n \in DOMAIN writes :
           /\ n = "extract_files" => writes[n].files # <<>>
           /\ n \in LaterStages => writes[n].files = state.files
    /\ (error = "ValueError" /\ LastStage({"extract_files"})) =>
           /\ run = "raised"
           /\ state.files = <<>>

C31_Witness ==
    /\ Committed("make_decision")
    /\ Len(state.files) = 2
    /\ Len(before.files) = 2

C31_WitnessEmptyCatalog ==
    /\ run = "raised"
    /\ error = "ValueError"
    /\ LastStage({"extract_files"})
    /\ Scratch \in fs

\* C32: a run is strictly sequential: no step of a run holds two stages,
\* scheduled or executed.
C32_OneStagePerStep ==
    run = "running" => Cardinality(scheduled \cup DOMAIN writes) <= 1

\* the stage n has just run and returned a state
Returned(n) == n \in DOMAIN writes' /\ n \notin DOMAIN writes

\* C33: an analyzer changes its own output and current_stage and nothing
\* else, and its output is what it parsed from this reply alone, whatever
\* the state held before (a second pass of the remediation loop included).
C33_AnalyzersFrame ==
    [][/\ Returned("analyze_security") =>
              \E c \in SecurityReplies :
                  writes'["analyze_security"] =
                      [state EXCEPT !.current_stage = "security_check",
                                    !.security_issues =
                                        _parse_security_issues(c)]
       /\ Returned("analyze_guidelines") =>
              \E c \in GuidelineReplies :
                  writes'["analyze_guidelines"] =
                      [state EXCEPT !.current_stage = "guideline_check",
                                    !.guideline_violations =
                                        _parse_violations(c)]
       /\ Returned("analyze_description") =>
              \E c \in DescriptionReplies :
                  writes'["analyze_description"] =
                      [state EXCEPT !.current_stage = "description_check",
                                    !.description_match =
                                        _extract_match_score(c)]]_vars

\* a second pass of analyze_security replaced a high finding by a low one
C33_Witness ==
    /\ "analyze_security" \in DOMAIN writes
    /\ Len(state.security_issues) = 1
    /\ state.security_issues[1].severity = T_high
    /\ Len(writes["analyze_security"].security_issues) = 1
    /\ writes["analyze_security"].security_issues[1].severity = T_low
    /\ writes["analyze_security"].files = state.files

\* C37: whenever process_upload raises, the scratch directory it generated
\* does not exist afterwards and server_path has not been set.
C37_FailedUploadLeavesNothing ==
    (UploadCalled /\ run = "raised" /\ trace = <<"process_upload">>) =>
        /\ Scratch \notin fs
        /\ Written = {}
        /\ state.server_path = StrDefault

\* the registry file of reg holds an entry for name
Registered(reg, name) ==
    reg.file # <<>> /\ Has(json_load(reg.file[1]), name)

\* C39: when verify() approved and storing the files or writing the
\* registry entry fails, handle_verification does not raise but returns a
\* result with approved false; a returned result is approved only if the
\* registry entry was written.
C39_StoreFailureIsReported ==
    run = "registry" =>
        \A k \in DOMAIN calls :
            (calls[k].op = "handle_verification"
                /\ calls[k].verdict = "approved") =>
                /\ calls[k].raised = "none"
                /\ calls[k].returned \in {"approved", "rejected"}
                /\ calls[k].returned = "approved" =>
                       Registered(calls[k].after, calls[k].name)
                /\ ~Registered(calls[k].after, calls[k].name) =>
                       calls[k].returned = "rejected"

----------------------------------------------------------------------------
(* The reply parsers *)

\* the lines of response that open a segment
Markers(response, key) == {i \in DOMAIN response : response[i].key = key}

\* the keys of the lines of the segment opened at line i
SegmentKeys(response, key, i) ==
    {response[j].key :
        j \in {k \in i..Len(response) :
                  \A q \in Markers(response, key) : q > i => k < q}}

CompleteIssue(response, i) ==
    /\ {"Description", "Location", "Recommendation"}
           \subseteq SegmentKeys(response, "Severity", i)
    /\ lower(response[i].val) \in {T_high, T_medium, T_low}

CompleteViolation(response, i) ==
    {"Description", "Impact"} \subseteq SegmentKeys(response, "Rule", i)

\* the k-th element of the set S of line numbers
Kth(S, k) == CHOOSE i \in S : Cardinality({j \in S : j <= i}) = k

\* C34: the parsers commit one finding for each segment (a marker line and
\* the lines up to the next marker) that holds all required fields, with a
\* severity among high, medium and low for a security finding, and nothing
\* else: a segment yields at most one finding, an incomplete or ill-valued
\* segment yields none, and field lines before the first marker contribute
\* to no finding.
C34_ParsersCommitCompleteSegments ==
    run = "parsed" =>
        LET c == calls[1]
            r == c.response
        IN  /\ c.op = "_parse_security_issues" =>
                LET S == {i \in Markers(r, "Severity") : CompleteIssue(r, i)}
                IN  /\ Len(c.returned) = Cardinality(S)
                    /\ Len(c.returned) <= Cardinality(Markers(r, "Severity"))
                    /\ \A k \in DOMAIN c.returned :
                           c.returned[k] =
                               SecurityIssue(lower(r[Kth(S, k)].val))
            /\ c.op = "_parse_violations" =>
                LET S == {i \in Markers(r, "Rule") : CompleteViolation(r, i)}
                IN  /\ Len(c.returned) = Cardinality(S)
                    /\ Len(c.returned) <= Cardinality(Markers(r, "Rule"))
                    /\ \A k \in DOMAIN c.returned :
                           c.returned[k] = GuidelineViolation(T_critical)

\* a Description line before the first marker and a segment that lacks
\* one: the four keys are never together in one segment, nothing is committed
C34_Witness ==
    /\ run = "parsed"
    /\ calls[1].op = "_parse_security_issues"
    /\ Len(calls[1].response) = 5
    /\ calls[1].response[1].key = "Description"
    /\ calls[1].response[2].key = "Severity"
    /\ calls[1].response[2].val = T_HIGH
    /\ SegmentKeys(calls[1].response, "Severity", 2) =
           {"Severity", "Location", "Recommendation"}
    /\ calls[1].returned = <<>>

\* an incomplete segment followed by a complete one: one finding
C34_WitnessSecondSegment ==
    /\ run = "parsed"
    /\ calls[1].op = "_parse_security_issues"
    /\ Cardinality(Markers(calls[1].response, "Severity")) = 2
    /\ calls[1].response[1].key = "Severity"
    /\ calls[1].response[2].key = "Severity"
    /\ Len(calls[1].returned) = 1

----------------------------------------------------------------------------
(* The two process managers and the Node dialect *)

\* the arguments of the start_server call of _verify_startup
StartArgs == <<startup.package_path, Dirname(state.files[1].path)>>

\* C35: for the start_server(package_path, package_name) call that
\* _verify_startup issues and the same outcome of the launched command,
\* the Python and the Node manager return the same result, raise alike and
\* are left with the same process handle (so is_healthy answers alike).
C35_SameLifecycle ==
    StartCalled =>
        \A k \in DOMAIN calls :
            (calls[k].op = "start_server"
                /\ calls[k].outcome.kind # "pipx_install_failed") =>
                LET py == PythonProcessManager_start_server(StartArgs,
                                                            calls[k].outcome)
                    nd == NodeProcessManager_start_server(StartArgs,
                                                          calls[k].outcome)
                IN  /\ py.ok = nd.ok
                    /\ py.raised = nd.raised
                    /\ py.process = nd.process
                    /\ is_healthy(py.process) = is_healthy(nd.process)

\* the dialect the lockfiles of the uploaded package select
LockfileDialect ==
    IF M_pnpm_lock \in archive.members THEN "pnpm"
    ELSE IF M_yarn_lock \in archive.members THEN "yarn"
    ELSE "npm"

\* C36: for a Node server the package is built with the dialect its
\* lockfile selects (pnpm-lock.yaml: pnpm, yarn.lock: yarn,
\* package-lock.json or none: npm) and verify_startup launches it with that
\* same dialect.
C36_LaunchDialectIsBuildDialect ==
    (StartCalled /\ startup.server_type = "node") =>
        \E b \in DOMAIN calls : \E l \in DOMAIN calls :
            /\ calls[b].op = "build_node_package"
            /\ calls[b].dialect = LockfileDialect
            /\ calls[b].command = <<LockfileDialect, "pack">>
            /\ calls[l].op = "start_server"
            /\ calls[l].command # <<>>
            /\ calls[l].dialect = calls[b].dialect

----------------------------------------------------------------------------
(* ServerProcessManager *)

\* C38: after any sequence of start_server, stop_server and restart_server
\* calls every launched process that still runs is the one tracked under
\* its name, and after stop_server(name) the name is not tracked and
\* is_running(name) is false.
C38_RunningIsTracked ==
    run = "servers" =>
        /\ \A pid \in DOMAIN process.launched :
               process.launched[pid].status = "running" =>
                   process.tracked[process.launched[pid].name] = <<pid>>
        /\ (calls # <<>> /\ calls[1].op = "stop_server") =>
               /\ process.tracked[calls[1].name] = <<>>
               /\ ~ServerProcessManager_is_running(process, calls[1].name)

====
